---- MODULE Spec2Model ----
(***************************************************************************)
(* Motion control of the robot and the brain that drives it: the safety    *)
(* supervisor                                                              *)
(* (ElleeMotorController, src/enhanced_motor_control.py) on top of the     *)
(* four-wheel software-PWM driver (SOMEBODY4MotorController, src/motor.py).*)
(*                                                                         *)
(* Spec     : the supervisor and the threads it starts (watchdogs,         *)
(*            duration timers, the emergency cooldown), driven by two      *)
(*            caller threads.  time.sleep is abstracted: a                 *)
(*            sleeping thread may wake at any moment.  A wheel command     *)
(*            (move_forward, stop_all, ...) is one step here.              *)
(* FairSpec : Spec with weak fairness on every thread's next step.         *)
(* DanceSpec: the same callers starting dances instead of movements.       *)
(* WatchdogSpec : commands without a duration and emergency stops only,    *)
(*            under the same fairness: the watchdog alone ends a movement. *)
(* SpeedSpec: one caller issuing commands and preference updates with      *)
(*            every kind of requested speed.                               *)
(* PwmSpec  : the wheel driver alone, one step per assignment of          *)
(*            set_motor_speed and per duty the PWM timing loop reads.      *)
(* ParseSpec: one utterance given to process_voice_command                 *)
(*            (src/movement_comands.py), followed by the operation it      *)
(*            selects.                                                     *)
(* TimedSpec: one utterance with a duration, under fairness.               *)
(* VoiceSpec: utterances with and without a speed word, one after the      *)
(*            other.                                                       *)
(* KinematicSpec : every motion primitive at every speed, wheel by wheel.  *)
(* OmniSpec : set_omni_movement on sampled velocities, in exact fractions. *)
(* StopSpec : one caller issuing voice commands and stops.                 *)
(* HistorySpec : StopSpec's caller on a movement history that is nearly    *)
(*            full.                                                        *)
(* BrainSpec: the brain's main loop                                        *)
(*            (src/enhanced_brain_module_with_movements.py) with its       *)
(*            speech listener, its speech-output and AI threads, on top of *)
(*            the supervisor.                                              *)
(* FairBrainSpec : BrainSpec with weak fairness on the main loop and on    *)
(*            every thread's next step.                                    *)
(* RefusalSpec : movement utterances beside an emergency stop, under       *)
(*            fairness.                                                    *)
(* FaultSpec: PwmSpec with GPIO.output calls that raise.                   *)
(* ShutdownSpec : the wheel driver's cleanup against the PWM timing loop,  *)
(*            one step per test and per pin write of the loop.             *)
(* EmergencyBrainSpec : the brain with a listener that may recognise       *)
(*            'emergency stop', under fairness.                            *)
(* ModifierSpec : utterances naming each movement intent with a speed word.*)
(* DutySpec : the PWM loop on the constant duties of one wheel command.    *)
(* LimitSpec: voice commands with and without a requested speed beside a   *)
(*            dance.                                                       *)
(* ExitSpec : ShutdownSpec followed by the brain's stop(), as the          *)
(*            application's shutdown runs them.                            *)
(***************************************************************************)
EXTENDS Integers, Sequences, FiniteSets, TLC

VARIABLES
    speed_f,              \* motor['speed_f'] of each wheel      (motor.py:25)
    speed_r,              \* motor['speed_r'] of each wheel      (motor.py:26)
    current_speed,        \* enhanced_motor_control.py:25
    is_moving,            \* enhanced_motor_control.py:28
    current_action,       \* enhanced_motor_control.py:29
    movement_start_time,  \* enhanced_motor_control.py:30, <<>> is None
    emergency_stop_active,\* enhanced_motor_control.py:31
    movement_timeout,     \* enhanced_motor_control.py:34
    safety_lock,          \* enhanced_motor_control.py:35, the holder or NoThread
    movement_history,     \* enhanced_motor_control.py:38
    total_movements,      \* enhanced_motor_control.py:39
    pc,                   \* position of every thread
    args,                 \* arguments and locals of each caller's current call
    ret,                  \* value returned by each caller's last call
    dance_step,           \* index into dance_moves of each dance thread
    calls,                \* number of operations invoked so far
    raced,                \* history: an emergency_stop and a voice_* call overlapped
    pwm,                  \* position of the PWM timing loop
    pin,                  \* level of each wheel's RPWM / LPWM pin
    issued,               \* history: the frames of the wheel commands issued so far (PwmSpec)
    seen,                 \* history: the duties read so far in the loop's current pass (PwmSpec)
    writer,               \* position of the thread issuing wheel commands, then of cleanup
    commands,             \* number of wheel commands issued so far (PwmSpec)
    voice_text,           \* the words of the utterance given to process_voice_command
    parsed,               \* process_voice_command: command_type, speed, duration
    state,                \* enhanced_brain_module_with_movements.py:40, the RobotState
    person_detected,      \* enhanced_brain_module_with_movements.py:72
    conversation_active,  \* enhanced_brain_module_with_movements.py:95
    conversation_started, \* enhanced_brain_module_with_movements.py:618
    result_queue,         \* fixed_speech_module.py:14, the utterances recognised
    brain                 \* position of the brain's threads

supervisor_vars == <<current_speed, is_moving, current_action, movement_start_time,
                     emergency_stop_active, movement_timeout, safety_lock,
                     movement_history, total_movements, pc, args, ret,
                     dance_step, calls, raced>>
supervisor_vars_but_pc == <<current_speed, is_moving, current_action,
                            movement_start_time, emergency_stop_active,
                            movement_timeout, safety_lock, movement_history,
                            total_movements, args, ret, dance_step, calls, raced>>
pwm_vars == <<pwm, pin, issued, seen, writer, commands>>
parser_vars == <<voice_text, parsed>>
brain_vars == <<state, person_detected, conversation_active, conversation_started,
                result_queue, brain>>
vars == <<speed_f, speed_r, supervisor_vars, pwm_vars, parser_vars, brain_vars>>

---------------------------------------------------------------------------
(* Bounds of the model *)

\* operations the callers invoke in one behaviour of Spec
MaxCalls == 3
\* operations the caller invokes in one behaviour of SpeedSpec
MaxSpeedCalls == 2
\* utterances the caller gives in one behaviour of VoiceSpec
MaxVoiceCalls == 2
\* operations the callers invoke in one behaviour of DanceSpec
MaxDanceCalls == 2
\* wheel commands the writer issues in one behaviour of PwmSpec
MaxCommands == 2

---------------------------------------------------------------------------
(* Program constants *)

default_speed == 50
max_safe_speed == 70
initial_movement_timeout == 10
HistoryCap == 50
MinTimeout == 5
MaxTimeout == 30
MaxDuty == 100
SpinSlowdown == 10
ComeHereSpeed == 30

\* self.motors, in the dict's insertion order
MotorOrder == <<"FL", "FR", "BR", "BL">>
Wheels == {"FL", "FR", "BR", "BL"}

---------------------------------------------------------------------------
(* Threads *)

Callers == {"call"} \X {1, 2}
Watchdogs == {"watchdog"} \X (1..MaxCalls)
Timers == {"timer"} \X (1..MaxCalls)
Dancers == {"dance"} \X (1..MaxCalls)
Cooldowns == {"cooldown"} \X (1..MaxCalls)
Spawned == Watchdogs \cup Timers \cup Dancers \cup Cooldowns
Threads == Callers \cup Spawned
NoThread == <<"none", 0>>

None == <<>>
Some(x) == <<x>>

Max(a, b) == IF a >= b THEN a ELSE b
Min(a, b) == IF a <= b THEN a ELSE b
Abs(x) == IF x < 0 THEN -x ELSE x

\* Python's `a or b` on an optional number: None and 0 are falsy
PyOr(opt, dflt) == IF opt = None \/ opt[1] = 0 THEN dflt ELSE opt[1]
\* Python's truth value of an optional number
Truthy(opt) == opt # None /\ opt[1] # 0

---------------------------------------------------------------------------
(* Wheel driver: src/motor.py *)

\* set_motor_speed: speed = max(-100, min(100, speed))
ClampSpeed(speed) == Max(-MaxDuty, Min(MaxDuty, speed))
\* set_motor_speed: the value it leaves in motor['speed_f']
ForwardDuty(speed) == IF ClampSpeed(speed) > 0 THEN Abs(ClampSpeed(speed)) ELSE 0
\* set_motor_speed: the value it leaves in motor['speed_r']
ReverseDuty(speed) == IF ClampSpeed(speed) < 0 THEN Abs(ClampSpeed(speed)) ELSE 0

\* The signed speed each motion primitive passes to set_motor_speed, per wheel
move_forward(s) == [w \in Wheels |-> s]
move_backward(s) == [w \in Wheels |-> -s]
\* turn_left with the two sides exchanged
turn_left_mirrored(s) == [w \in Wheels |-> IF w \in {"FL", "BL"} THEN s ELSE -s]
turn_left(s) == [w \in Wheels |-> IF w \in {"FL", "BL"} THEN -s ELSE s]
turn_right(s) == [w \in Wheels |-> IF w \in {"FL", "BL"} THEN s ELSE -s]
\* strafe_left with the back wheels exchanged
strafe_left_as_turn(s) == [w \in Wheels |-> IF w \in {"FL", "BL"} THEN -s ELSE s]
strafe_left(s) == [w \in Wheels |-> IF w \in {"FL", "BR"} THEN -s ELSE s]
strafe_right(s) == [w \in Wheels |-> IF w \in {"FL", "BR"} THEN s ELSE -s]
diagonal_forward_left(s) == [w \in Wheels |-> IF w \in {"FL", "BR"} THEN 0 ELSE s]
diagonal_forward_right(s) == [w \in Wheels |-> IF w \in {"FL", "BR"} THEN s ELSE 0]
spin_clockwise(s) == [w \in Wheels |-> IF w \in {"FL", "BL"} THEN s ELSE -s]
stop_all_frame == [w \in Wheels |-> 0]

Primitives == {"move_forward", "move_backward", "turn_left", "turn_right",
               "strafe_left", "strafe_right", "diagonal_forward_left",
               "diagonal_forward_right", "spin_clockwise", "stop_all"}

Frame(prim, s) ==
    CASE prim = "move_forward" -> move_forward(s)
      [] prim = "move_backward" -> move_backward(s)
      [] prim = "turn_left" -> turn_left(s)
      [] prim = "turn_right" -> turn_right(s)
      [] prim = "strafe_left" -> strafe_left(s)
      [] prim = "strafe_right" -> strafe_right(s)
      [] prim = "diagonal_forward_left" -> diagonal_forward_left(s)
      [] prim = "diagonal_forward_right" -> diagonal_forward_right(s)
      [] prim = "spin_clockwise" -> spin_clockwise(s)
      [] prim = "stop_all" -> stop_all_frame

\* A whole wheel command: its four set_motor_speed calls
ApplyFrame(frame) ==
    /\ speed_f' = [w \in Wheels |-> ForwardDuty(frame[w])]
    /\ speed_r' = [w \in Wheels |-> ReverseDuty(frame[w])]

\* the order in which a wheel command calls set_motor_speed: the motion
\* primitives name the wheels FL, FR, BL, BR; stop_all iterates self.motors
WriteOrder(prim) == IF prim = "stop_all" THEN MotorOrder ELSE <<"FL", "FR", "BL", "BR">>

NoCommand == [prim |-> "none", speed |-> 0, index |-> 1, field |-> "speed_f", id |-> 0]

AllDutiesZero == \A w \in Wheels : speed_f[w] = 0 /\ speed_r[w] = 0

---------------------------------------------------------------------------
(* Safety supervisor: src/enhanced_motor_control.py *)

VoiceOps == {"voice_move_forward", "voice_move_backward", "voice_turn_left",
             "voice_turn_right", "voice_strafe_left", "voice_strafe_right",
             "voice_spin_around", "voice_dance_mode", "voice_come_here"}

\* the action name each voice_* operation passes to _start_movement
ActionName(op) ==
    CASE op = "voice_move_forward" -> "moving forward"
      [] op = "voice_move_backward" -> "moving backward"
      [] op = "voice_turn_left" -> "turning left"
      [] op = "voice_turn_right" -> "turning right"
      [] op = "voice_strafe_left" -> "strafing left"
      [] op = "voice_strafe_right" -> "strafing right"
      [] op = "voice_spin_around" -> "spinning around"
      [] op = "voice_dance_mode" -> "dancing"
      [] op = "voice_come_here" -> "coming to you"

\* the motion primitive each voice_* operation calls
VoicePrimitive(op) ==
    CASE op = "voice_move_forward" -> "move_forward"
      [] op = "voice_move_backward" -> "move_backward"
      [] op = "voice_turn_left" -> "turn_left"
      [] op = "voice_turn_right" -> "turn_right"
      [] op = "voice_strafe_left" -> "strafe_left"
      [] op = "voice_strafe_right" -> "strafe_right"
      [] op = "voice_spin_around" -> "spin_clockwise"
      [] op = "voice_come_here" -> "move_forward"

\* the speed each voice_* operation passes to set_speed_limit
RequestedSpeed(op, speed) ==
    CASE op = "voice_spin_around" -> PyOr(speed, current_speed - SpinSlowdown)
      [] op = "voice_come_here" -> ComeHereSpeed
      [] OTHER -> PyOr(speed, current_speed)

\* whether the voice_* operation starts a _timed_movement thread
StartsTimer(op, duration) ==
    op \in {"voice_spin_around", "voice_come_here"} \/ Truthy(duration)

\* set_speed_limit without its upper limit
set_speed_limit_unlimited(speed) == Max(0, speed)

\* set_speed_limit with the wheel driver's limit in place of max_safe_speed
set_speed_limit_of_driver(speed) == Max(0, Min(MaxDuty, speed))

\* set_speed_limit: speed = max(0, min(self.max_safe_speed, speed))
set_speed_limit(speed) == Max(0, Min(max_safe_speed, speed))

\* set_movement_preferences: max(5, min(30, preferences['movement_timeout']))
ClampTimeout(t) == Max(MinTimeout, Min(MaxTimeout, t))

\* _enhanced_dance: dance_moves, as (primitive, speed)
dance_moves == << <<"move_forward", 40>>, <<"move_backward", 40>>,
                  <<"strafe_left", 35>>, <<"strafe_right", 35>>,
                  <<"turn_left", 45>>, <<"turn_right", 45>>,
                  <<"diagonal_forward_left", 30>>, <<"spin_clockwise", 50>> >>

\* process_voice_command has resolved nothing
NoCommandType == [command_type |-> "none", speed |-> None, duration |-> None,
                  outcome |-> "none"]

NoArgs == [op |-> "none", speed |-> None, duration |-> None, id |-> 0, effective |-> 0]

EmergencyMessage == "Emergency stop activated! All movement halted."
RejectedMessage == "Cannot move - emergency stop active"
DanceMessage == "Let me show you my moves! Starting dance mode!"

\* positions of a caller inside emergency_stop
EmergencyPcs == {"emergency_stop", "em_stop_all", "em_end_movement", "em_spawn"}
\* positions of a caller inside a voice_* operation
VoicePcs == {"start_movement", "set_speed_limit", "command"}

InEmergency(t) == pc[t] \in EmergencyPcs
InVoice(t) == pc[t] \in VoicePcs

\* the brain before start(): no main loop, no greeting, no thread that
\* generates a response (ai) or speaks one (speaking), nothing heard
NotStarted == [pc |-> "stopped", starter |-> "none", ai |-> 0, speaking |-> 0, heard |-> 0]

\* a slice of movement_history that keeps the oldest entries
Oldest(seq, n) == IF Len(seq) > n THEN SubSeq(seq, 1, n) ELSE seq

\* the last slice of movement_history that _end_movement keeps
Last(seq, n) == IF Len(seq) > n THEN SubSeq(seq, Len(seq) - n + 1, Len(seq)) ELSE seq

Init ==
    /\ speed_f = [w \in Wheels |-> 0]
    /\ speed_r = [w \in Wheels |-> 0]
    /\ current_speed = default_speed
    /\ is_moving = FALSE
    /\ current_action = "stopped"
    /\ movement_start_time = None
    /\ emergency_stop_active = FALSE
    /\ movement_timeout = initial_movement_timeout
    /\ safety_lock = NoThread
    /\ movement_history = <<>>
    /\ total_movements = 0
    /\ pc = [t \in Threads |-> IF t \in Callers THEN "idle" ELSE "none"]
    /\ args = [t \in Callers |-> NoArgs]
    /\ ret = [t \in Callers |-> "None"]
    /\ dance_step = [d \in Dancers |-> 1]
    /\ calls = 0
    /\ raced = FALSE
    /\ pwm = [phase |-> "on", index |-> 1, field |-> "speed_f", duty |-> 0]
    /\ pin = [w \in Wheels |-> [RPWM |-> "LOW", LPWM |-> "LOW"]]
    /\ issued = {stop_all_frame}
    /\ seen = <<>>
    /\ writer = NoCommand
    /\ commands = 0
    /\ voice_text = <<>>
    /\ parsed = NoCommandType
    /\ state = "idle"
    /\ person_detected = FALSE
    /\ conversation_active = FALSE
    /\ conversation_started = FALSE
    /\ result_queue = <<>>
    /\ brain = NotStarted

---------------------------------------------------------------------------
(* Operations the callers invoke *)

Main == <<"call", 1>>
Other == <<"call", 2>>

\* The voice commands issued in Spec, as (operation, speed, duration): with and
\* without a speed, with and without a duration, with the default duration.
SpecCommands == {<<"voice_move_forward", None, None>>,
                 <<"voice_move_forward", Some(120), Some(3)>>,
                 <<"voice_spin_around", None, None>>}

\* entry of one of the voice_* operations: the call's frame
EnterVoice(t, op, speed, duration) ==
    /\ pc[t] = "idle"
    /\ calls < MaxCalls
    /\ calls' = calls + 1
    /\ pc' = [pc EXCEPT ![t] = "start_movement"]
    /\ args' = [args EXCEPT ![t] = [op |-> op, speed |-> speed, duration |-> duration,
                                    id |-> calls + 1, effective |-> 0]]
    /\ ret' = [ret EXCEPT ![t] = "None"]
    /\ raced' = (raced \/ \E u \in Callers \ {t} : InEmergency(u))
    /\ UNCHANGED <<speed_f, speed_r, current_speed, is_moving, current_action,
                   movement_start_time, emergency_stop_active, movement_timeout,
                   safety_lock, movement_history, total_movements, dance_step, pwm_vars>>

\* a caller enters one of the voice_* operations directly
CallVoice(t, op, speed, duration) == EnterVoice(t, op, speed, duration) /\ UNCHANGED <<parser_vars, brain_vars>>

\* entry of stop_all_safe: the call's frame
EnterStop(t) ==
    /\ pc[t] = "idle"
    /\ calls < MaxCalls
    /\ calls' = calls + 1
    /\ pc' = [pc EXCEPT ![t] = "stop_all"]
    /\ args' = [args EXCEPT ![t] = [NoArgs EXCEPT !.op = "stop_all_safe", !.id = calls + 1]]
    /\ ret' = [ret EXCEPT ![t] = "None"]
    /\ UNCHANGED <<speed_f, speed_r, current_speed, is_moving, current_action,
                   movement_start_time, emergency_stop_active, movement_timeout,
                   safety_lock, movement_history, total_movements, dance_step, raced,
                   pwm_vars>>

\* a caller enters stop_all_safe directly
CallStop(t) == EnterStop(t) /\ UNCHANGED <<parser_vars, brain_vars>>

\* entry of emergency_stop: the call's frame
EnterEmergency(t) ==
    /\ pc[t] = "idle"
    /\ calls < MaxCalls
    /\ calls' = calls + 1
    /\ pc' = [pc EXCEPT ![t] = "emergency_stop"]
    /\ args' = [args EXCEPT ![t] = [NoArgs EXCEPT !.op = "emergency_stop", !.id = calls + 1]]
    /\ ret' = [ret EXCEPT ![t] = "None"]
    /\ raced' = (raced \/ \E u \in Callers \ {t} : InVoice(u))
    /\ UNCHANGED <<speed_f, speed_r, current_speed, is_moving, current_action,
                   movement_start_time, emergency_stop_active, movement_timeout,
                   safety_lock, movement_history, total_movements, dance_step, pwm_vars>>

\* a caller enters emergency_stop directly
CallEmergency(t) == EnterEmergency(t) /\ UNCHANGED <<parser_vars, brain_vars>>

\* set_movement_preferences, which takes no lock and never waits
set_movement_preferences(t, speed, timeout) ==
    /\ pc[t] = "idle"
    /\ calls < MaxCalls
    /\ speed # None \/ timeout # None
    /\ calls' = calls + 1
    /\ current_speed' = IF speed # None THEN set_speed_limit(speed[1]) ELSE current_speed
    /\ movement_timeout' = IF timeout # None THEN ClampTimeout(timeout[1])
                           ELSE movement_timeout
    /\ ret' = [ret EXCEPT ![t] = "None"]
    /\ UNCHANGED <<speed_f, speed_r, is_moving, current_action, movement_start_time,
                   emergency_stop_active, safety_lock, movement_history,
                   total_movements, pc, args, dance_step, raced, pwm_vars, parser_vars, brain_vars>>

---------------------------------------------------------------------------
(* Steps of the supervisor's code *)

\* where a thread goes when the operation it runs is over
Finished(t) == IF t \in Callers THEN "idle" ELSE "none"

\* _start_movement: the whole `with self.safety_lock` block, which needs the
\* lock.  voice_dance_mode does nothing after it but start the _enhanced_dance
\* thread and return, which is part of this step.
start_movement(t) ==
    /\ pc[t] = "start_movement"
    /\ safety_lock = NoThread
    /\ IF emergency_stop_active
       THEN /\ pc' = [pc EXCEPT ![t] = "idle"]
            /\ ret' = [ret EXCEPT ![t] = RejectedMessage]
            /\ args' = [args EXCEPT ![t] = NoArgs]
            /\ UNCHANGED <<is_moving, current_action, movement_start_time,
                           total_movements>>
       ELSE /\ is_moving' = TRUE
            /\ current_action' = ActionName(args[t].op)
            /\ movement_start_time' = Some(total_movements + 1)
            /\ total_movements' = total_movements + 1
            /\ IF args[t].op = "voice_dance_mode"
               THEN /\ pc' = [pc EXCEPT ![<<"watchdog", args[t].id>>] = "sleep",
                                        ![<<"dance", args[t].id>>] = "check",
                                        ![t] = "idle"]
                    /\ ret' = [ret EXCEPT ![t] = DanceMessage]
                    /\ args' = [args EXCEPT ![t] = NoArgs]
               ELSE /\ pc' = [pc EXCEPT ![<<"watchdog", args[t].id>>] = "sleep",
                                        ![t] = "set_speed_limit"]
                    /\ UNCHANGED <<ret, args>>
    /\ UNCHANGED <<speed_f, speed_r, current_speed, emergency_stop_active,
                   movement_timeout, safety_lock, movement_history, dance_step,
                   calls, raced, pwm_vars, parser_vars, brain_vars>>

\* voice_*: speed = self.set_speed_limit(speed or self.current_speed)
voice_set_speed(t) ==
    /\ pc[t] = "set_speed_limit"
    /\ current_speed' = set_speed_limit(RequestedSpeed(args[t].op, args[t].speed))
    /\ args' = [args EXCEPT ![t].effective = current_speed']
    /\ pc' = [pc EXCEPT ![t] = "command"]
    /\ UNCHANGED <<speed_f, speed_r, is_moving, current_action, movement_start_time,
                   emergency_stop_active, movement_timeout, safety_lock,
                   movement_history, total_movements, ret, dance_step, calls, raced,
                   pwm_vars, parser_vars, brain_vars>>

\* voice_*: the wheel command, the duration timer and the return
voice_command(t) ==
    /\ pc[t] = "command"
    /\ ApplyFrame(Frame(VoicePrimitive(args[t].op), args[t].effective))
    /\ pc' = [pc EXCEPT ![t] = "idle",
                        ![<<"timer", args[t].id>>] =
                            IF StartsTimer(args[t].op, args[t].duration)
                            THEN "sleep" ELSE @]
    /\ ret' = [ret EXCEPT ![t] = "Moving"]
    /\ args' = [args EXCEPT ![t] = NoArgs]
    /\ UNCHANGED <<current_speed, is_moving, current_action, movement_start_time,
                   emergency_stop_active, movement_timeout, safety_lock,
                   movement_history, total_movements, dance_step, calls, raced,
                   pwm_vars, parser_vars, brain_vars>>

\* stop_all_safe: super().stop_all()
stop_all(t) ==
    /\ pc[t] = "stop_all"
    /\ ApplyFrame(stop_all_frame)
    /\ pc' = [pc EXCEPT ![t] = "end_movement"]
    /\ UNCHANGED <<supervisor_vars_but_pc, pwm_vars, parser_vars, brain_vars>>

\* _end_movement recording a history entry whether or not a movement is on
EndMovementBody_always_records ==
    /\ movement_history' =
           Last(Append(movement_history,
                       [action |-> current_action, speed |-> current_speed]),
                HistoryCap)
    /\ is_moving' = FALSE
    /\ current_action' = "stopped"
    /\ movement_start_time' = None

\* _end_movement: what the `with self.safety_lock` block does to the status
EndMovementBody ==
    /\ movement_history' =
           IF is_moving
           THEN Last(Append(movement_history,
                            [action |-> current_action, speed |-> current_speed]),
                     HistoryCap)
           ELSE movement_history
    /\ is_moving' = FALSE
    /\ current_action' = "stopped"
    /\ movement_start_time' = None

\* stop_all_safe: self._end_movement(), which needs the lock, and the return
end_movement(t) ==
    /\ pc[t] = "end_movement"
    /\ safety_lock = NoThread
    /\ EndMovementBody
    /\ pc' = [pc EXCEPT ![t] = Finished(t)]
    /\ args' = IF t \in Callers THEN [args EXCEPT ![t] = NoArgs] ELSE args
    /\ UNCHANGED <<speed_f, speed_r, current_speed, emergency_stop_active,
                   movement_timeout, safety_lock, total_movements, ret, dance_step,
                   calls, raced, pwm_vars, parser_vars, brain_vars>>

\* emergency_stop, statement by statement.  safety_lock is a threading.Lock,
\* which is not reentrant: the nested _end_movement waits for the lock like
\* any other thread.
emergency_stop(t) ==
    CASE pc[t] = "emergency_stop" ->
            \* with self.safety_lock: self.emergency_stop_active = True
            /\ safety_lock = NoThread
            /\ safety_lock' = t
            /\ emergency_stop_active' = TRUE
            /\ pc' = [pc EXCEPT ![t] = "em_stop_all"]
            /\ UNCHANGED <<speed_f, speed_r, current_speed, is_moving, current_action,
                           movement_start_time, movement_timeout, movement_history,
                           total_movements, args, ret, dance_step, calls, raced,
                           pwm_vars, parser_vars, brain_vars>>
      [] pc[t] = "em_stop_all" ->
            \* super().stop_all()
            /\ ApplyFrame(stop_all_frame)
            /\ pc' = [pc EXCEPT ![t] = "em_end_movement"]
            /\ UNCHANGED <<supervisor_vars_but_pc, pwm_vars, parser_vars, brain_vars>>
      [] pc[t] = "em_end_movement" ->
            \* self._end_movement()
            /\ safety_lock = NoThread
            /\ EndMovementBody
            /\ pc' = [pc EXCEPT ![t] = "em_spawn"]
            /\ UNCHANGED <<speed_f, speed_r, current_speed, emergency_stop_active,
                           movement_timeout, safety_lock, total_movements, args, ret,
                           dance_step, calls, raced, pwm_vars, parser_vars, brain_vars>>
      [] pc[t] = "em_spawn" ->
            \* starts _clear_emergency_stop, returns the message, leaves the block
            /\ pc' = [pc EXCEPT ![t] = "idle", ![<<"cooldown", args[t].id>>] = "sleep"]
            /\ ret' = [ret EXCEPT ![t] = EmergencyMessage]
            /\ args' = [args EXCEPT ![t] = NoArgs]
            /\ safety_lock' = NoThread
            /\ UNCHANGED <<speed_f, speed_r, current_speed, is_moving, current_action,
                           movement_start_time, emergency_stop_active,
                           movement_timeout, movement_history, total_movements,
                           dance_step, calls, raced, pwm_vars, parser_vars, brain_vars>>
      [] OTHER -> FALSE

\* _clear_emergency_stop: after the sleep, clears the flag under the lock
clear_emergency_stop(t) ==
    /\ pc[t] = "sleep"
    /\ safety_lock = NoThread
    /\ emergency_stop_active' = FALSE
    /\ pc' = [pc EXCEPT ![t] = "none"]
    /\ UNCHANGED <<speed_f, speed_r, current_speed, is_moving, current_action,
                   movement_start_time, movement_timeout, safety_lock,
                   movement_history, total_movements, args, ret, dance_step, calls,
                   raced, pwm_vars, parser_vars, brain_vars>>

\* The emergency stop and its cooldown: a caller runs emergency_stop, the
\* thread emergency_stop starts runs _clear_emergency_stop.
EmergencyStop(t) ==
    IF t \in Callers THEN emergency_stop(t) ELSE clear_emergency_stop(t)

\* _movement_timeout_check: wakes from the sleep and reads is_moving
movement_timeout_check(t) ==
    /\ pc[t] = "sleep"
    /\ pc' = [pc EXCEPT ![t] = IF is_moving THEN "stop_all" ELSE "none"]
    /\ UNCHANGED <<speed_f, speed_r, supervisor_vars_but_pc, pwm_vars, parser_vars, brain_vars>>

\* _timed_movement: wakes from the sleep and calls stop_all_safe, whose first
\* statement is super().stop_all()
timed_movement(t) ==
    /\ pc[t] = "sleep"
    /\ ApplyFrame(stop_all_frame)
    /\ pc' = [pc EXCEPT ![t] = "end_movement"]
    /\ UNCHANGED <<supervisor_vars_but_pc, pwm_vars, parser_vars, brain_vars>>

\* _enhanced_dance: the loop head, `if not self.is_moving: break`
dance_check(t) ==
    /\ pc[t] = "check"
    /\ pc' = [pc EXCEPT ![t] = IF dance_step[t] > Len(dance_moves) \/ ~is_moving
                               THEN "stop_all" ELSE "move"]
    /\ UNCHANGED <<speed_f, speed_r, supervisor_vars_but_pc, pwm_vars, parser_vars, brain_vars>>

\* _enhanced_dance: action() of the current move, then the sleep
dance_move(t) ==
    /\ pc[t] = "move"
    /\ ApplyFrame(Frame(dance_moves[dance_step[t]][1], dance_moves[dance_step[t]][2]))
    /\ dance_step' = [dance_step EXCEPT ![t] = @ + 1]
    /\ pc' = [pc EXCEPT ![t] = "check"]
    /\ UNCHANGED <<current_speed, is_moving, current_action, movement_start_time,
                   emergency_stop_active, movement_timeout, safety_lock,
                   movement_history, total_movements, args, ret, calls, raced,
                   pwm_vars, parser_vars, brain_vars>>

---------------------------------------------------------------------------
(* The supervisor's specification *)

\* the next step of thread t in a movement: a caller inside a voice_* operation
\* or stop_all_safe, a watchdog, a duration timer
MovementStep(t) ==
    \/ t \in Callers /\ start_movement(t)
    \/ t \in Callers /\ voice_set_speed(t)
    \/ t \in Callers /\ voice_command(t)
    \/ t \in Watchdogs /\ movement_timeout_check(t)
    \/ t \in Timers /\ timed_movement(t)
    \/ stop_all(t)
    \/ end_movement(t)

\* the next step of thread t, the emergency stop and its cooldown included
ThreadStep(t) ==
    \/ MovementStep(t)
    \/ t \in Callers \cup Cooldowns /\ EmergencyStop(t)

\* The thread of the robot's main loop issues the voice commands one after the
\* other; a second thread may stop the robot at any time.
Next ==
    \/ \E c \in SpecCommands : CallVoice(Main, c[1], c[2], c[3])
    \/ \E t \in Callers : CallStop(t)
    \/ \E t \in Callers : CallEmergency(t)
    \/ \E t \in Threads : ThreadStep(t)

Spec == Init /\ [][Next]_vars

\* Every thread that is able to take its next step eventually takes it: the
\* interpreter schedules every runnable thread.  The callers' decisions to
\* invoke an operation carry no fairness.
FairSpec == Spec /\ \A t \in Threads : WF_vars(ThreadStep(t))

---------------------------------------------------------------------------
(* The dance *)

\* the next step of thread t when the only movement is the dance: no
\* voice_* operation sets a speed, commands the wheels or starts a timer
DanceStep(t) ==
    \/ t \in Callers /\ start_movement(t)
    \/ t \in Watchdogs /\ movement_timeout_check(t)
    \/ t \in Dancers /\ dance_check(t)
    \/ t \in Dancers /\ dance_move(t)
    \/ stop_all(t)
    \/ end_movement(t)
    \/ t \in Callers \cup Cooldowns /\ EmergencyStop(t)

\* The main loop starts a dance; the other caller may stop the robot while
\* the dance thread works through dance_moves.
DanceNext ==
    \/ calls < MaxDanceCalls /\ CallVoice(Main, "voice_dance_mode", None, None)
    \/ calls < MaxDanceCalls /\ CallStop(Other)
    \/ calls < MaxDanceCalls /\ CallEmergency(Other)
    \/ \E t \in Threads : DanceStep(t)

DanceSpec == Init /\ [][DanceNext]_vars

---------------------------------------------------------------------------
(* Movements that only the watchdog can end *)

\* voice commands without a duration, for which the voice_* operation starts
\* no _timed_movement thread
UntimedCommands == {<<"voice_move_forward", None>>, <<"voice_move_forward", Some(120)>>}

\* the next step of thread t when no duration timer exists
WatchdogStep(t) ==
    \/ t \in Callers /\ start_movement(t)
    \/ t \in Callers /\ voice_set_speed(t)
    \/ t \in Callers /\ voice_command(t)
    \/ t \in Watchdogs /\ movement_timeout_check(t)
    \/ stop_all(t)
    \/ end_movement(t)
    \/ t \in Callers \cup Cooldowns /\ EmergencyStop(t)

\* Nobody calls stop_all_safe and no command has a duration: a movement, once
\* admitted, is ended by its watchdog or not at all.  Either caller may call
\* emergency_stop.
WatchdogNext ==
    \/ \E c \in UntimedCommands : CallVoice(Main, c[1], c[2], None)
    \/ \E t \in Callers : CallEmergency(t)
    \/ \E t \in Threads : WatchdogStep(t)

\* every runnable thread is eventually scheduled
WatchdogSpec == Init /\ [][WatchdogNext]_vars /\ \A t \in Threads : WF_vars(WatchdogStep(t))

---------------------------------------------------------------------------
(* The wheel driver's specification: wheel commands against the PWM loop *)

\* speeds of the wheel commands issued in PwmSpec
PwmSpeeds == {40}
\* values of current_duty the loop may compute: (time.time() - start_time) * 100 / period
DutySamples == {1, 50}

\* a thread enters a wheel command (move_forward(speed), ..., stop_all())
IssueCommand(prim, speed) ==
    /\ writer.prim = "none"
    /\ commands < MaxCommands
    /\ commands' = commands + 1
    /\ writer' = [prim |-> prim, speed |-> speed, index |-> 1, field |-> "speed_f",
                  id |-> commands + 1]
    /\ issued' = issued \cup {Frame(prim, speed)}
    /\ UNCHANGED <<speed_f, speed_r, supervisor_vars, parser_vars, brain_vars, pwm, pin, seen>>

\* the wheel and the signed speed of the set_motor_speed call the writer is in
WriterWheel == WriteOrder(writer.prim)[writer.index]
WriterSpeed == ClampSpeed(Frame(writer.prim, writer.speed)[WriterWheel])

\* set_motor_speed: the assignment to motor['speed_f']
set_motor_speed_f ==
    /\ writer.prim # "none"
    /\ writer.field = "speed_f"
    /\ speed_f' = [speed_f EXCEPT ![WriterWheel] = ForwardDuty(WriterSpeed)]
    /\ writer' = [writer EXCEPT !.field = "speed_r"]
    /\ UNCHANGED <<speed_r, supervisor_vars, parser_vars, brain_vars, pwm, pin, issued, seen, commands>>

\* set_motor_speed: the assignment to motor['speed_r'], for speed 0 the two
\* GPIO.output(..., GPIO.LOW), and the return
set_motor_speed_r ==
    /\ writer.prim # "none"
    /\ writer.field = "speed_r"
    /\ speed_r' = [speed_r EXCEPT ![WriterWheel] = ReverseDuty(WriterSpeed)]
    /\ pin' = IF WriterSpeed = 0
              THEN [pin EXCEPT ![WriterWheel] = [RPWM |-> "LOW", LPWM |-> "LOW"]]
              ELSE pin
    /\ writer' = IF writer.index = Len(MotorOrder) THEN NoCommand
                 ELSE [writer EXCEPT !.index = @ + 1, !.field = "speed_f"]
    /\ UNCHANGED <<speed_f, supervisor_vars, parser_vars, brain_vars, pwm, issued, seen, commands>>

\* self.pwm_running: set in __init__, cleared by cleanup, whose position the
\* writer holds
pwm_running == writer.prim # "cleanup"

\* the wheel the PWM loop is at
PwmWheel == MotorOrder[pwm.index]
\* the duties read so far in this pass over the wheels, with the one read now
Seen(duty) == IF pwm.index = 1 /\ pwm.field = "speed_f" THEN <<duty>> ELSE Append(seen, duty)

\* _pwm_loop, on phase: if motor['speed_f'] > 0: GPIO.output(motor['RPWM'], GPIO.HIGH)
pwm_on_f ==
    /\ pwm.phase = "on"
    /\ pwm.field = "speed_f"
    /\ pin' = IF speed_f[PwmWheel] > 0 THEN [pin EXCEPT ![PwmWheel].RPWM = "HIGH"] ELSE pin
    /\ seen' = Seen(speed_f[PwmWheel])
    /\ pwm' = [pwm EXCEPT !.field = "speed_r"]
    /\ UNCHANGED <<speed_f, speed_r, supervisor_vars, parser_vars, brain_vars, issued, writer, commands>>

\* _pwm_loop, on phase: if motor['speed_r'] > 0: GPIO.output(motor['LPWM'], GPIO.HIGH);
\* after the last wheel, time.sleep(period * 0.01)
pwm_on_r ==
    /\ pwm.phase = "on"
    /\ pwm.field = "speed_r"
    /\ pin' = IF speed_r[PwmWheel] > 0 THEN [pin EXCEPT ![PwmWheel].LPWM = "HIGH"] ELSE pin
    /\ seen' = Seen(speed_r[PwmWheel])
    /\ pwm' = IF pwm.index = Len(MotorOrder)
              THEN [phase |-> "off", index |-> 1, field |-> "speed_f", duty |-> 0]
              ELSE [pwm EXCEPT !.index = @ + 1, !.field = "speed_f"]
    /\ UNCHANGED <<speed_f, speed_r, supervisor_vars, parser_vars, brain_vars, issued, writer, commands>>

\* _pwm_loop, off phase: current_duty is computed from the clock, which only
\* advances; if current_duty > motor['speed_f']: GPIO.output(motor['RPWM'], GPIO.LOW)
pwm_off_f(current_duty) ==
    /\ pwm.phase = "off"
    /\ pwm.field = "speed_f"
    /\ current_duty >= pwm.duty
    /\ pin' = IF current_duty > speed_f[PwmWheel]
              THEN [pin EXCEPT ![PwmWheel].RPWM = "LOW"] ELSE pin
    /\ seen' = Seen(speed_f[PwmWheel])
    /\ pwm' = [pwm EXCEPT !.field = "speed_r", !.duty = current_duty]
    /\ UNCHANGED <<speed_f, speed_r, supervisor_vars, parser_vars, brain_vars, issued, writer, commands>>

\* _pwm_loop, off phase: if current_duty > motor['speed_r']: GPIO.output(motor['LPWM'], GPIO.LOW);
\* after the last wheel the loop sleeps to the end of the period and starts
\* over while self.pwm_running
pwm_off_r ==
    /\ pwm.phase = "off"
    /\ pwm.field = "speed_r"
    /\ pin' = IF pwm.duty > speed_r[PwmWheel]
              THEN [pin EXCEPT ![PwmWheel].LPWM = "LOW"] ELSE pin
    /\ seen' = Seen(speed_r[PwmWheel])
    /\ pwm' = IF pwm.index = Len(MotorOrder)
              THEN [phase |-> IF pwm_running THEN "on" ELSE "terminated",
                    index |-> 1, field |-> "speed_f", duty |-> 0]
              ELSE [pwm EXCEPT !.index = @ + 1, !.field = "speed_f"]
    /\ UNCHANGED <<speed_f, speed_r, supervisor_vars, parser_vars, brain_vars, issued, writer, commands>>

PwmNext ==
    \/ \E prim \in Primitives, speed \in PwmSpeeds : IssueCommand(prim, speed)
    \/ set_motor_speed_f
    \/ set_motor_speed_r
    \/ pwm_on_f
    \/ pwm_on_r
    \/ \E d \in DutySamples : pwm_off_f(d)
    \/ pwm_off_r

PwmSpec == Init /\ [][PwmNext]_vars

---------------------------------------------------------------------------
(* The supervisor under every kind of requested speed *)

\* requested speeds: none, negative, zero, above 100
SpeedInputs == {None, Some(-20), Some(0), Some(120)}
\* requested timeouts: none, above the maximum
TimeoutInputs == {None, Some(45)}
\* one operation for each way a voice_* operation computes the speed it
\* requests: `speed or current_speed` (the six directional operations share
\* the expression), `speed or (current_speed - 10)`, and the fixed 30
SpeedOps == {"voice_move_forward", "voice_spin_around", "voice_come_here"}

\* One thread issues voice commands and preference updates with every kind of
\* requested speed; the watchdogs and timers they start run beside it.
SpeedNext ==
    \/ /\ calls < MaxSpeedCalls
       /\ \E op \in SpeedOps, speed \in SpeedInputs : CallVoice(Main, op, speed, None)
    \/ /\ calls < MaxSpeedCalls
       /\ \E speed \in SpeedInputs, timeout \in TimeoutInputs :
             set_movement_preferences(Main, speed, timeout)
    \/ calls < MaxSpeedCalls /\ CallStop(Main)
    \/ \E t \in Threads : MovementStep(t)

SpeedSpec == Init /\ [][SpeedNext]_vars

---------------------------------------------------------------------------
(* Voice command processor: src/movement_comands.py *)

\* An utterance is the sequence of the words of the normalized text
\* (voice_text.lower().strip()): lower-case words separated by blanks.  A
\* pattern r'\bw1\s+w2\b' matches when its words occur next to each other.
Occurs(phrase, text) ==
    \E i \in 1..(Len(text) - Len(phrase) + 1) :
        SubSeq(text, i, i + Len(phrase) - 1) = phrase

Cross(A, B) == {<<a, b>> : a \in A, b \in B}

\* self.command_patterns: the phrases each command type's patterns match
command_patterns(command_type) ==
    CASE command_type = "move_forward" ->
            Cross({"move", "go", "walk"}, {"forward", "ahead", "straight"})
                \cup {<<"forward">>, <<"go", "forward">>, <<"move", "ahead">>}
      [] command_type = "move_backward" ->
            Cross({"move", "go", "walk"}, {"backward", "back", "backwards"})
                \cup {<<"backward">>, <<"go", "back">>, <<"move", "back">>, <<"reverse">>}
      [] command_type = "turn_left" ->
            {<<"turn", "left">>, <<"go", "left">>, <<"left", "turn">>, <<"rotate", "left">>}
      [] command_type = "turn_right" ->
            {<<"turn", "right">>, <<"go", "right">>, <<"right", "turn">>,
             <<"rotate", "right">>}
      [] command_type = "strafe_left" ->
            Cross({"move", "strafe", "slide"}, {"left"})
                \cup {<<"sideway", "left">>, <<"step", "left">>}
      [] command_type = "strafe_right" ->
            Cross({"move", "strafe", "slide"}, {"right"})
                \cup {<<"sideway", "right">>, <<"step", "right">>}
      [] command_type = "spin_around" ->
            Cross({"spin"}, {"around", "clockwise"})
                \cup {<<"turn", "around">>, <<"rotate", "around">>, <<"rotate", "full">>,
                      <<"spin">>}
      [] command_type = "dance" ->
            {<<"dance">>, <<"show", "me", "your", "moves">>, <<"dance", "mode">>,
             <<"let's", "dance">>}
      [] command_type = "come_here" ->
            {<<"come", "here">>, <<"come", "to", "me">>, <<"come", "over">>, <<"approach">>}
      [] command_type = "stop" ->
            {<<"stop">>, <<"halt">>, <<"stop", "moving">>, <<"freeze">>}
      [] command_type = "emergency_stop" ->
            {<<"emergency", "stop">>, <<"stop", "now">>, <<"stop", "immediately">>,
             <<"e", "stop">>, <<"estop">>}

\* the keys of self.command_patterns, in the dict's order
CommandTypes == <<"move_forward", "move_backward", "turn_left", "turn_right",
                  "strafe_left", "strafe_right", "spin_around", "dance", "come_here",
                  "stop", "emergency_stop">>

\* _match_command
match_command(text, command_type) ==
    \E phrase \in command_patterns(command_type) : Occurs(phrase, text)

\* is_movement_command looking at the movement patterns only
is_movement_command_without_stops(voice_text_) ==
    /\ voice_text_ # <<>>
    /\ \E i \in 1..Len(CommandTypes) :
          /\ CommandTypes[i] \notin {"stop", "emergency_stop"}
          /\ match_command(voice_text_, CommandTypes[i])

\* is_movement_command
is_movement_command(voice_text_) ==
    /\ voice_text_ # <<>>
    /\ \E i \in 1..Len(CommandTypes) : match_command(voice_text_, CommandTypes[i])

\* _extract_speed: the speed classes
SlowSpeed == 30
FastSpeed == 65
NormalSpeed == 50

\* _extract_speed: self.speed_patterns is searched in the order slow, fast, normal
extract_speed(text) ==
    IF \E w \in {"slow", "slowly", "carefully"} : Occurs(<<w>>, text) THEN Some(SlowSpeed)
    ELSE IF \E w \in {"fast", "quick", "quickly", "rapid"} : Occurs(<<w>>, text)
         THEN Some(FastSpeed)
    ELSE IF \E w \in {"normal", "regular", "medium"} : Occurs(<<w>>, text)
         THEN Some(NormalSpeed)
    ELSE None

\* the words that are numbers (\d+), and int() of each
Numerals == {"0", "3", "5", "12"}
int(w) == CASE w = "0" -> 0 [] w = "3" -> 3 [] w = "5" -> 5 [] w = "12" -> 12

\* where r'\bfor\s+(\d+)\s+<unit>\b' matches, unit in `units`
ForNumberUnit(text, units) ==
    {i \in 1..(Len(text) - 2) :
        text[i] = "for" /\ text[i + 1] \in Numerals /\ text[i + 2] \in units}
\* where r'\b(\d+)\s+seconds?\b' matches
NumberSeconds(text) ==
    {i \in 1..(Len(text) - 1) : text[i] \in Numerals /\ text[i + 1] \in {"second", "seconds"}}
\* re.search returns the leftmost match
Leftmost(S) == CHOOSE i \in S : \A j \in S : i <= j

\* _extract_duration: self.duration_patterns is searched in the dict's order
extract_duration(text) ==
    IF ForNumberUnit(text, {"second", "seconds"}) # {}
    THEN Some(int(text[Leftmost(ForNumberUnit(text, {"second", "seconds"})) + 1]))
    ELSE IF ForNumberUnit(text, {"sec"}) # {}
    THEN Some(int(text[Leftmost(ForNumberUnit(text, {"sec"})) + 1]))
    ELSE IF NumberSeconds(text) # {}
    THEN Some(int(text[Leftmost(NumberSeconds(text))]))
    ELSE IF Occurs(<<"a", "bit">>, text) THEN Some(1)
    ELSE IF Occurs(<<"a", "little">>, text) THEN Some(1)
    ELSE IF Occurs(<<"a", "while">>, text) THEN Some(3)
    ELSE IF Occurs(<<"a", "moment">>, text) THEN Some(2)
    ELSE None

\* _execute_movement_command: command_map
command_map(command_type) ==
    CASE command_type = "move_forward" -> "voice_move_forward"
      [] command_type = "move_backward" -> "voice_move_backward"
      [] command_type = "turn_left" -> "voice_turn_left"
      [] command_type = "turn_right" -> "voice_turn_right"
      [] command_type = "strafe_left" -> "voice_strafe_left"
      [] command_type = "strafe_right" -> "voice_strafe_right"
      [] command_type = "spin_around" -> "voice_spin_around"
      [] command_type = "dance" -> "voice_dance_mode"
      [] command_type = "come_here" -> "voice_come_here"

\* the command types of the loop over self.command_patterns that match, by
\* their place in the dict; 'stop' and 'emergency_stop' are skipped
MovementMatches(text) ==
    {i \in 1..Len(CommandTypes) :
        /\ CommandTypes[i] \notin {"stop", "emergency_stop"}
        /\ match_command(text, CommandTypes[i])}

\* process_voice_command's resolution with the stop patterns tried first
resolve_stop_first(text) ==
    IF text = <<>> THEN "none"
    ELSE IF match_command(text, "stop") THEN "stop"
    ELSE IF match_command(text, "emergency_stop") THEN "emergency_stop"
    ELSE IF MovementMatches(text) # {} THEN CommandTypes[Leftmost(MovementMatches(text))]
    ELSE "none"

\* the command type process_voice_command resolves the text to, "none" if
\* nothing matches
resolve(text) ==
    IF text = <<>> THEN "none"
    ELSE IF match_command(text, "emergency_stop") THEN "emergency_stop"
    ELSE IF match_command(text, "stop") THEN "stop"
    ELSE IF MovementMatches(text) # {} THEN CommandTypes[Leftmost(MovementMatches(text))]
    ELSE "none"

\* process_voice_command returns without calling the motor controller
ReturnsAtOnce(t, outcome, command_type, speed, duration) ==
    /\ pc[t] = "idle"
    /\ calls < MaxCalls
    /\ calls' = calls + 1
    /\ parsed' = [command_type |-> command_type, speed |-> speed, duration |-> duration,
                  outcome |-> outcome]
    /\ UNCHANGED <<speed_f, speed_r, current_speed, is_moving, current_action,
                   movement_start_time, emergency_stop_active, movement_timeout,
                   safety_lock, movement_history, total_movements, pc, args, ret,
                   dance_step, raced, pwm_vars>>

\* process_voice_command, up to the entry of the motor controller's operation
\* it calls.  voice_come_here takes no speed: method(**kwargs) with a speed
\* raises TypeError, which _execute_movement_command catches.
process_voice_command(t, text) ==
    /\ voice_text' = text
    /\ LET command_type == resolve(text)
           speed == extract_speed(text)
           duration == extract_duration(text)
       IN  CASE text = <<>> ->
                    ReturnsAtOnce(t, "no_input", "none", None, None)
             [] text # <<>> /\ command_type = "none" ->
                    ReturnsAtOnce(t, "not_understood", "none", None, None)
             [] command_type = "emergency_stop" ->
                    /\ parsed' = [NoCommandType EXCEPT !.command_type = command_type,
                                                       !.outcome = "called"]
                    /\ EnterEmergency(t)
             [] command_type = "stop" ->
                    /\ parsed' = [NoCommandType EXCEPT !.command_type = command_type,
                                                       !.outcome = "called"]
                    /\ EnterStop(t)
             [] command_type = "dance" ->
                    /\ parsed' = [command_type |-> command_type, speed |-> speed,
                                  duration |-> duration, outcome |-> "called"]
                    /\ EnterVoice(t, command_map(command_type), None, None)
             [] command_type = "come_here" /\ speed # None ->
                    ReturnsAtOnce(t, "exception", command_type, speed, duration)
             [] OTHER ->
                    /\ parsed' = [command_type |-> command_type, speed |-> speed,
                                  duration |-> duration, outcome |-> "called"]
                    /\ EnterVoice(t, command_map(command_type), speed, duration)

---------------------------------------------------------------------------
(* The processor on every short utterance *)

\* words of the utterances: they make emergency, stop and movement phrases;
\* "hello" is in no pattern
ParseWords == {"emergency", "stop", "now", "spin", "forward", "turn", "left", "hello"}
\* the longest utterance
MaxWords == 3
ParseUtterances == UNION {[1..n -> ParseWords] : n \in 0..MaxWords}

\* process_voice_command keeps no state that its next call reads: one
\* utterance is processed, and the operation it calls runs as in Spec.
ParseNext ==
    \/ /\ calls = 0
       /\ \E text \in ParseUtterances :
              process_voice_command(Main, text) /\ UNCHANGED brain_vars
    \/ \E t \in Threads : ThreadStep(t)

ParseSpec == Init /\ [][ParseNext]_vars

---------------------------------------------------------------------------
(* One command with a duration *)

\* utterances that name a movement and a duration above 0
TimedUtterances ==
    {<<"move", "forward", "for", "3", "seconds">>,
     <<"move", "backward", "fast", "for", "5", "seconds">>,
     <<"go", "forward", "slowly", "12", "seconds">>,
     <<"turn", "left", "for", "3", "sec">>,
     <<"strafe", "right", "for", "a", "moment">>,
     <<"turn", "right", "a", "bit">>,
     <<"spin", "around", "for", "5", "seconds">>,
     <<"come", "here", "for", "a", "while">>}

\* One utterance is processed and no other command is issued; the watchdog
\* and the duration timer of the movement run beside the caller.
TimedNext ==
    \/ /\ calls = 0
       /\ \E text \in TimedUtterances :
              process_voice_command(Main, text) /\ UNCHANGED brain_vars
    \/ \E t \in Threads : MovementStep(t)

\* every runnable thread is eventually scheduled
TimedSpec == Init /\ [][TimedNext]_vars /\ \A t \in Threads : WF_vars(MovementStep(t))

---------------------------------------------------------------------------
(* Spoken commands one after the other *)

\* movements with and without a speed word, the spin and the approach
VoiceUtterances ==
    {<<"move", "forward">>,
     <<"go", "forward", "slowly">>,
     <<"move", "backward", "fast">>,
     <<"turn", "left", "quickly">>,
     <<"spin", "around">>,
     <<"come", "here">>}

\* The main loop gives one utterance after the other to
\* process_voice_command; nobody calls emergency_stop.
VoiceNext ==
    \/ /\ calls < MaxVoiceCalls
       /\ \E text \in VoiceUtterances :
              process_voice_command(Main, text) /\ UNCHANGED brain_vars
    \/ \E t \in Threads : MovementStep(t)

VoiceSpec == Init /\ [][VoiceNext]_vars

---------------------------------------------------------------------------
(* The motion primitives at every speed *)

\* the speeds given to the motion primitives
KinematicSpeeds == 0..MaxDuty

\* A wheel command at any speed, written wheel by wheel, and further
\* commands on the wheel state it leaves.
KinematicNext ==
    \/ /\ commands = 0
       /\ \E prim \in Primitives, speed \in KinematicSpeeds : IssueCommand(prim, speed)
    \/ /\ commands > 0
       /\ \E prim \in Primitives, speed \in PwmSpeeds : IssueCommand(prim, speed)
    \/ set_motor_speed_f
    \/ set_motor_speed_r

KinematicSpec == Init /\ [][KinematicNext]_vars

---------------------------------------------------------------------------
(* set_omni_movement: src/motor.py *)

\* fl / max_val * 100 is a float.  A duty that set_omni_movement computes is
\* kept as the fraction <<numerator, denominator>> it is the nearest float
\* of, not reduced, with a denominator above 0.
Fraction(n, d) == <<n, d>>
\* set_motor_speed: speed = max(-100, min(100, speed)), on a fraction
ClampFraction(q) ==
    IF q[1] > MaxDuty * q[2] THEN Fraction(MaxDuty, 1)
    ELSE IF q[1] < -MaxDuty * q[2] THEN Fraction(-MaxDuty, 1)
    ELSE q
\* set_motor_speed: the values it leaves in motor['speed_f'] and motor['speed_r']
ForwardFraction(q) == IF q[1] > 0 THEN Fraction(Abs(q[1]), q[2]) ELSE Fraction(0, 1)
ReverseFraction(q) == IF q[1] < 0 THEN Fraction(Abs(q[1]), q[2]) ELSE Fraction(0, 1)

\* set_omni_movement: the omni wheel kinematics
OmniKinematics(vx, vy, omega) ==
    [w \in Wheels |->
        CASE w = "FL" -> vx - vy - omega
          [] w = "FR" -> vx + vy + omega
          [] w = "BL" -> vx + vy - omega
          [] w = "BR" -> vx - vy + omega]

\* max(abs(fl), abs(fr), abs(bl), abs(br))
MaxVal(raw) == CHOOSE m \in {Abs(raw[w]) : w \in Wheels} : \A w \in Wheels : Abs(raw[w]) <= m

\* set_omni_movement without its normalisation
OmniUnscaled(raw) == [w \in Wheels |-> Fraction(raw[w], 1)]

\* set_omni_movement: the normalisation, (fl / max_val) * 100 for every wheel
\* when max_val > 100
OmniNormalize(raw) ==
    IF MaxVal(raw) > MaxDuty
    THEN [w \in Wheels |-> Fraction(raw[w] * MaxDuty, MaxVal(raw))]
    ELSE [w \in Wheels |-> Fraction(raw[w], 1)]

\* set_omni_movement(vx, vy, omega), with its four set_motor_speed calls; the
\* caller is then at its return
set_omni_movement(vx, vy, omega) ==
    LET speeds == OmniNormalize(OmniKinematics(vx, vy, omega))
    IN  /\ writer.prim \in {"none", "set_omni_movement"}
        /\ speed_f' = [w \in Wheels |-> ForwardFraction(ClampFraction(speeds[w]))]
        /\ speed_r' = [w \in Wheels |-> ReverseFraction(ClampFraction(speeds[w]))]
        /\ pin' = [w \in Wheels |-> IF speeds[w][1] = 0
                                    THEN [RPWM |-> "LOW", LPWM |-> "LOW"] ELSE pin[w]]
        /\ writer' = [NoCommand EXCEPT !.prim = "set_omni_movement",
                                       !.speed = <<vx, vy, omega>>]
        /\ UNCHANGED <<supervisor_vars, parser_vars, brain_vars, pwm, issued, seen, commands>>

\* values of vx, vy and omega: the ends of -100..100, zero, and values that
\* make sums below and above 100
OmniInputs == {-100, -60, -7, 0, 33, 100}

\* set_omni_movement is called again and again.
OmniNext == \E vx \in OmniInputs, vy \in OmniInputs, omega \in OmniInputs :
                set_omni_movement(vx, vy, omega)

OmniSpec == Init /\ [][OmniNext]_vars

---------------------------------------------------------------------------
(* Stops one after the other *)

\* The main loop alone issues voice commands and stops, one call after the
\* other; the watchdogs and timers of the commands run beside it.
StopNext ==
    \/ \E c \in SpecCommands : CallVoice(Main, c[1], c[2], c[3])
    \/ CallStop(Main)
    \/ \E t \in Threads : MovementStep(t)

StopSpec == Init /\ [][StopNext]_vars

---------------------------------------------------------------------------
(* A movement history that is nearly full *)

\* the history after n completed forward movements, the i-th at speed i
PastMovements(n) == [i \in 1..n |-> [action |-> "moving forward", speed |-> i]]

\* the numbers of movements completed before: up to HistoryCap
PastCounts == (HistoryCap - 2)..HistoryCap

\* the commands given from then on: none of them a forward movement
HistoryCommands == {<<"voice_turn_left", Some(65), None>>,
                    <<"voice_move_backward", None, Some(3)>>}

\* The supervisor has completed up to HistoryCap movements, each ended by a
\* stop, and is stopped.
HistoryInit ==
    \E n \in PastCounts :
        /\ speed_f = [w \in Wheels |-> 0]
        /\ speed_r = [w \in Wheels |-> 0]
        /\ current_speed = default_speed
        /\ is_moving = FALSE
        /\ current_action = "stopped"
        /\ movement_start_time = None
        /\ emergency_stop_active = FALSE
        /\ movement_timeout = initial_movement_timeout
        /\ safety_lock = NoThread
        /\ movement_history = PastMovements(n)
        /\ total_movements = n
        /\ pc = [t \in Threads |-> IF t \in Callers THEN "idle" ELSE "none"]
        /\ args = [t \in Callers |-> NoArgs]
        /\ ret = [t \in Callers |-> "None"]
        /\ dance_step = [d \in Dancers |-> 1]
        /\ calls = 0
        /\ raced = FALSE
        /\ pwm = [phase |-> "on", index |-> 1, field |-> "speed_f", duty |-> 0]
        /\ pin = [w \in Wheels |-> [RPWM |-> "LOW", LPWM |-> "LOW"]]
        /\ issued = {stop_all_frame}
        /\ seen = <<>>
        /\ writer = NoCommand
        /\ commands = 0
        /\ voice_text = <<>>
        /\ parsed = NoCommandType
        /\ state = "idle"
        /\ person_detected = FALSE
        /\ conversation_active = FALSE
        /\ conversation_started = FALSE
        /\ result_queue = <<>>
        /\ brain = NotStarted

\* The main loop goes on issuing voice commands and stops.
HistoryNext ==
    \/ \E c \in HistoryCommands : CallVoice(Main, c[1], c[2], c[3])
    \/ CallStop(Main)
    \/ \E t \in Threads : MovementStep(t)

HistorySpec == HistoryInit /\ [][HistoryNext]_vars

---------------------------------------------------------------------------
(* The brain: src/enhanced_brain_module_with_movements.py *)

\* what the brain leaves alone when it calls neither the command processor
\* nor the motor controller
motion_vars == <<speed_f, speed_r, supervisor_vars, pwm_vars, parser_vars>>

\* utterances the speech listener may put in its queue
MaxHeard == 2
\* speak_and_return threads that have not returned
MaxSpeaking == 2

\* what the speech listener recognises: movements, a movement with a timer, a
\* stop, and an utterance that is no movement command
BrainUtterances == {<<"move", "forward">>, <<"come", "here">>, <<"stop">>, <<"hello">>}

\* _speak: the state it leaves, before it starts the speak_and_return thread
speak(s) == IF s # "moving" THEN "speaking" ELSE s

\* start(): the main loop thread is started, then the greeting is spoken
start ==
    /\ \/ /\ brain.pc = "stopped"
          /\ brain' = [brain EXCEPT !.pc = "update", !.starter = "greeting"]
          /\ UNCHANGED state
       \/ /\ brain.starter = "greeting"
          /\ state' = speak(state)
          /\ brain' = [brain EXCEPT !.starter = "done", !.speaking = @ + 1]
    /\ UNCHANGED <<motion_vars, person_detected, conversation_active,
                   conversation_started, result_queue>>

\* _listen_worker and _process_audio: while the listener is active, which it
\* is in LISTENING and stays in MOVING, a recognised utterance is queued
listen_worker(text) ==
    /\ state \in {"listening", "moving"}
    /\ brain.pc # "stopped"
    /\ brain.heard < MaxHeard
    /\ result_queue' = Append(result_queue, text)
    /\ brain' = [brain EXCEPT !.heard = @ + 1]
    /\ UNCHANGED <<motion_vars, state, person_detected, conversation_active,
                   conversation_started>>

\* _update_person_detection, at the head of every pass of the main loop:
\* the vision system reports a person or, after person_timeout, none
update_person_detection ==
    /\ brain.pc = "update"
    /\ \E detected \in BOOLEAN : person_detected' = detected
    /\ brain' = [brain EXCEPT !.pc = "dispatch"]
    /\ UNCHANGED <<motion_vars, state, conversation_active, conversation_started,
                   result_queue>>

\* _handle_person_left, with the goodbye it speaks and _transition_to_idle;
\* person_detected is written by the main loop only, so it is unchanged
\* after the sleep
handle_person_left ==
    IF conversation_active
    THEN /\ brain.speaking < MaxSpeaking
         /\ conversation_active' = FALSE
         /\ conversation_started' = FALSE
         /\ state' = "idle"
         /\ brain' = [brain EXCEPT !.pc = "update", !.speaking = @ + 1]
    ELSE /\ brain' = [brain EXCEPT !.pc = "update"]
         /\ UNCHANGED <<state, conversation_active, conversation_started>>

\* _enhanced_main_loop_with_movement: the pass of the loop in every state but
\* MOVING, and in LISTENING with an utterance that is no movement command
enhanced_main_loop_with_movement ==
    /\ brain.pc = "dispatch"
    /\ \/ /\ state = "idle"
          /\ IF ~person_detected
             THEN UNCHANGED <<state, conversation_active, conversation_started>>
             ELSE IF conversation_active
             THEN /\ state' = "listening"
                  /\ UNCHANGED <<conversation_active, conversation_started>>
             ELSE /\ \E cooldown_over \in BOOLEAN :
                         state' = IF cooldown_over THEN "engaging" ELSE "listening"
                  \* _start_new_conversation
                  /\ conversation_active' = TRUE
                  /\ conversation_started' = TRUE
          /\ brain' = [brain EXCEPT !.pc = "update"]
          /\ UNCHANGED result_queue
       \/ /\ state = "engaging"
          /\ IF person_detected
             THEN \* _greet_person_with_memory, _transition_to_listening
                  /\ brain.speaking < MaxSpeaking
                  /\ state' = "listening"
                  /\ conversation_active' = TRUE
                  /\ brain' = [brain EXCEPT !.pc = "update", !.speaking = @ + 1]
             ELSE /\ state' = "idle"
                  /\ brain' = [brain EXCEPT !.pc = "update"]
                  /\ UNCHANGED conversation_active
          /\ UNCHANGED <<conversation_started, result_queue>>
       \/ /\ state = "listening"
          /\ ~person_detected
          /\ handle_person_left
          /\ UNCHANGED result_queue
       \/ /\ state = "listening"
          /\ person_detected
          /\ result_queue = <<>>
          \* _check_conversation_timeout
          /\ \E silent_long \in BOOLEAN :
                IF conversation_active /\ silent_long
                THEN /\ brain.speaking < MaxSpeaking
                     /\ state' = speak(state)
                     /\ brain' = [brain EXCEPT !.pc = "update", !.speaking = @ + 1]
                ELSE /\ brain' = [brain EXCEPT !.pc = "update"]
                     /\ UNCHANGED state
          /\ UNCHANGED <<conversation_active, conversation_started, result_queue>>
       \/ /\ state = "listening"
          /\ person_detected
          /\ result_queue # <<>>
          /\ ~is_movement_command(Head(result_queue))
          \* _process_regular_conversation_enhanced
          /\ result_queue' = Tail(result_queue)
          /\ state' = "thinking"
          /\ brain' = [brain EXCEPT !.pc = "update", !.ai = @ + 1]
          /\ UNCHANGED <<conversation_active, conversation_started>>
       \/ /\ state = "thinking"
          /\ \E thought_long \in BOOLEAN :
                state' = IF ~thought_long THEN state
                         ELSE IF person_detected THEN "listening" ELSE "idle"
          /\ brain' = [brain EXCEPT !.pc = "update"]
          /\ UNCHANGED <<conversation_active, conversation_started, result_queue>>
       \/ /\ state = "speaking"
          /\ IF brain.speaking > 0
             THEN /\ brain' = [brain EXCEPT !.pc = "update"]
                  /\ UNCHANGED <<state, conversation_active, conversation_started>>
             ELSE IF person_detected
             THEN /\ state' = "listening"
                  /\ brain' = [brain EXCEPT !.pc = "update"]
                  /\ UNCHANGED <<conversation_active, conversation_started>>
             ELSE handle_person_left
          /\ UNCHANGED result_queue
    /\ UNCHANGED <<motion_vars, person_detected>>

\* _process_movement_command: _transition_to_moving and the call of
\* process_voice_command; then, when that has returned, the spoken answer
\* and, for a result without success, _transition_to_listening
process_movement_command ==
    \/ /\ brain.pc = "dispatch"
       /\ state = "listening"
       /\ person_detected
       /\ result_queue # <<>>
       /\ is_movement_command(Head(result_queue))
       /\ result_queue' = Tail(result_queue)
       /\ state' = "moving"
       /\ process_voice_command(Main, Head(result_queue))
       /\ brain' = [brain EXCEPT !.pc = "result"]
       /\ UNCHANGED <<person_detected, conversation_active, conversation_started>>
    \/ /\ brain.pc = "result"
       /\ pc[Main] = "idle"
       /\ brain.speaking < MaxSpeaking
       /\ state' = IF parsed.outcome = "called" THEN speak(state) ELSE "listening"
       /\ brain' = [brain EXCEPT !.pc = "update", !.speaking = @ + 1]
       /\ UNCHANGED <<motion_vars, person_detected, conversation_active,
                      conversation_started, result_queue>>

\* _handle_movement_state: the pass of the main loop in MOVING; the call of
\* stop_all_safe after movement_timeout, and its return.  Calls are kept for
\* the utterances still to be processed.
handle_movement_state ==
    \/ /\ brain.pc = "dispatch"
       /\ state = "moving"
       /\ \E timed_out \in BOOLEAN :
             IF ~is_moving
             THEN /\ state' = IF person_detected THEN "listening" ELSE "idle"
                  /\ brain' = [brain EXCEPT !.pc = "update"]
                  /\ UNCHANGED motion_vars
             ELSE IF timed_out
                     /\ calls + (MaxHeard - brain.heard) + Len(result_queue) < MaxCalls
             THEN /\ EnterStop(Main)
                  /\ brain' = [brain EXCEPT !.pc = "stopping"]
                  /\ UNCHANGED <<state, parser_vars>>
             ELSE /\ brain' = [brain EXCEPT !.pc = "update"]
                  /\ UNCHANGED <<state, motion_vars>>
       /\ UNCHANGED <<person_detected, conversation_active, conversation_started,
                      result_queue>>
    \/ /\ brain.pc = "stopping"
       /\ pc[Main] = "idle"
       /\ brain' = [brain EXCEPT !.pc = "update"]
       /\ UNCHANGED <<motion_vars, state, person_detected, conversation_active,
                      conversation_started, result_queue>>

\* speak_and_return, the thread of _speak: after tts_engine.speak
speak_and_return ==
    /\ brain.speaking > 0
    /\ brain' = [brain EXCEPT !.speaking = @ - 1]
    /\ state' = IF state # "speaking" THEN state
                ELSE IF conversation_active /\ person_detected THEN "listening"
                ELSE IF ~person_detected THEN "idle"
                ELSE state
    /\ UNCHANGED <<motion_vars, person_detected, conversation_active,
                   conversation_started, result_queue>>

\* _generate_enhanced_ai_response, the thread started for an utterance that
\* is no command: the response or a fallback is spoken, and the finally
\* clause calls _transition_to_listening
generate_enhanced_ai_response ==
    /\ brain.ai > 0
    /\ brain.speaking < MaxSpeaking
    /\ state' = "listening"
    /\ brain' = [brain EXCEPT !.ai = @ - 1, !.speaking = @ + 1]
    /\ UNCHANGED <<motion_vars, person_detected, conversation_active,
                   conversation_started, result_queue>>

\* the next step of the main loop thread
MainLoop ==
    \/ update_person_detection
    \/ enhanced_main_loop_with_movement
    \/ process_movement_command
    \/ handle_movement_state
    \/ MovementStep(Main)

\* The brain after construction: start(), the main loop, the speech
\* listener, the threads the brain starts, and the threads of the motor
\* controller.
BrainNext ==
    \/ start
    \/ \E text \in BrainUtterances : listen_worker(text)
    \/ MainLoop
    \/ speak_and_return
    \/ generate_enhanced_ai_response
    \/ \E t \in Spawned : MovementStep(t)

BrainSpec == Init /\ [][BrainNext]_vars

\* every thread that can take a step is eventually scheduled
FairBrainSpec ==
    /\ BrainSpec
    /\ WF_vars(start)
    /\ WF_vars(MainLoop)
    /\ WF_vars(speak_and_return)
    /\ WF_vars(generate_enhanced_ai_response)
    /\ \A t \in Spawned : WF_vars(MovementStep(t))

---------------------------------------------------------------------------
(* Movement utterances at an emergency stop *)

\* the utterances given to process_voice_command beside an emergency stop
RefusalUtterances == {<<"move", "forward">>, <<"come", "here">>}

\* A second thread calls emergency_stop; the main loop gives movement
\* utterances to process_voice_command.
RefusalNext ==
    \/ CallEmergency(Other)
    \/ \E text \in RefusalUtterances :
          process_voice_command(Main, text) /\ UNCHANGED brain_vars
    \/ \E t \in Threads : ThreadStep(t)

\* every runnable thread is eventually scheduled
RefusalSpec == Init /\ [][RefusalNext]_vars /\ \A t \in Threads : WF_vars(ThreadStep(t))

---------------------------------------------------------------------------
(* The PWM loop when a pin write fails *)

\* _pwm_loop: a GPIO.output of the loop raises.  The loop has no exception
\* handler, so the exception leaves _pwm_loop and the timing thread ends.
gpio_output_raises ==
    /\ pwm.phase \in {"on", "off"}
    /\ LET duty == IF pwm.field = "speed_f" THEN speed_f[PwmWheel] ELSE speed_r[PwmWheel]
       IN  IF pwm.phase = "on" THEN duty > 0
           ELSE \E current_duty \in DutySamples : current_duty > duty
    /\ pwm' = [pwm EXCEPT !.phase = "terminated"]
    /\ UNCHANGED <<speed_f, speed_r, supervisor_vars, parser_vars, brain_vars, pin,
                   issued, seen, writer, commands>>

\* the wheel driver as in PwmSpec, with pin writes that may fail
FaultNext == PwmNext \/ gpio_output_raises

FaultSpec == Init /\ [][FaultNext]_vars

---------------------------------------------------------------------------
(* Shutdown of the wheel driver *)

\* where the PWM loop goes after the wheel and field it is at in the on phase
PwmOnAdvance ==
    IF pwm.field = "speed_f" THEN [pwm EXCEPT !.phase = "on", !.field = "speed_r"]
    ELSE IF pwm.index = Len(MotorOrder)
    THEN [phase |-> "off", index |-> 1, field |-> "speed_f", duty |-> 0]
    ELSE [pwm EXCEPT !.phase = "on", !.index = @ + 1, !.field = "speed_f"]

\* _pwm_loop, on phase: the test `motor['speed_f'] > 0` or `motor['speed_r'] > 0`
pwm_on_test ==
    /\ pwm.phase = "on"
    /\ pwm' = IF (IF pwm.field = "speed_f" THEN speed_f[PwmWheel] ELSE speed_r[PwmWheel]) > 0
              THEN [pwm EXCEPT !.phase = "output"]
              ELSE PwmOnAdvance
    /\ UNCHANGED <<speed_f, speed_r, supervisor_vars, parser_vars, brain_vars, pin,
                   issued, seen, writer, commands>>

\* _pwm_loop, on phase: the GPIO.output(..., GPIO.HIGH) that follows a test
\* that was true
pwm_on_output ==
    /\ pwm.phase = "output"
    /\ pin' = IF pwm.field = "speed_f" THEN [pin EXCEPT ![PwmWheel].RPWM = "HIGH"]
              ELSE [pin EXCEPT ![PwmWheel].LPWM = "HIGH"]
    /\ pwm' = PwmOnAdvance
    /\ UNCHANGED <<speed_f, speed_r, supervisor_vars, parser_vars, brain_vars,
                   issued, seen, writer, commands>>

\* cleanup: self.pwm_running = False and the sleep; stop_all(), with its
\* GPIO.output(..., GPIO.LOW) for every wheel; GPIO.cleanup()
cleanup ==
    /\ \/ /\ writer.prim = "none"
          /\ writer' = [NoCommand EXCEPT !.prim = "cleanup", !.field = "sleep"]
          /\ UNCHANGED <<speed_f, speed_r, pin>>
       \/ /\ writer.prim = "cleanup"
          /\ writer.field = "sleep"
          /\ ApplyFrame(stop_all_frame)
          /\ pin' = [w \in Wheels |-> [RPWM |-> "LOW", LPWM |-> "LOW"]]
          /\ writer' = [writer EXCEPT !.field = "stop_all"]
       \/ /\ writer.prim = "cleanup"
          /\ writer.field = "stop_all"
          /\ writer' = [writer EXCEPT !.field = "GPIO.cleanup"]
          /\ UNCHANGED <<speed_f, speed_r, pin>>
    /\ UNCHANGED <<supervisor_vars, parser_vars, brain_vars, pwm, issued, seen, commands>>

\* the wheel commands before the shutdown: a movement, and the stop_all of
\* cleanup_enhanced and of the brain's stop()
ShutdownCommands == {"move_forward", "stop_all"}

\* Wheel commands, then cleanup, against the PWM loop, which runs until it
\* leaves its `while self.pwm_running` or the pins are released.
ShutdownNext ==
    \/ \E prim \in ShutdownCommands, speed \in PwmSpeeds : IssueCommand(prim, speed)
    \/ set_motor_speed_f
    \/ set_motor_speed_r
    \/ cleanup
    \/ /\ writer.field # "GPIO.cleanup"
       /\ \/ pwm_on_test
          \/ pwm_on_output
          \/ \E d \in DutySamples : pwm_off_f(d)
          \/ pwm_off_r

ShutdownSpec == Init /\ [][ShutdownNext]_vars

---------------------------------------------------------------------------
(* The brain hearing an emergency stop *)

\* what the listener recognises here: a movement, the emergency stop, small talk
EmergencyUtterances == {<<"come", "here">>, <<"emergency", "stop">>, <<"hello">>}

\* the next step of the main loop thread, inside emergency_stop included
EmergencyMainLoop == MainLoop \/ EmergencyStop(Main)

\* The brain with a listener that may recognise 'emergency stop', every
\* thread being scheduled when it can take a step.  The main loop is the only
\* caller of emergency_stop, which never gets as far as starting its
\* _clear_emergency_stop thread.
EmergencyBrainNext ==
    \/ start
    \/ \E text \in EmergencyUtterances : listen_worker(text)
    \/ EmergencyMainLoop
    \/ speak_and_return
    \/ generate_enhanced_ai_response
    \/ \E t \in Spawned : MovementStep(t)

EmergencyBrainSpec ==
    /\ Init /\ [][EmergencyBrainNext]_vars
    /\ WF_vars(start)
    /\ WF_vars(EmergencyMainLoop)
    /\ WF_vars(speak_and_return)
    /\ WF_vars(generate_enhanced_ai_response)
    /\ \A t \in Spawned : WF_vars(MovementStep(t))

---------------------------------------------------------------------------
(* Every movement intent with a speed word *)

\* one utterance per intent that takes modifiers, each with a speed word
ModifierUtterances ==
    {<<"go", "forward", "slowly">>,
     <<"move", "backward", "fast">>,
     <<"turn", "left", "quickly">>,
     <<"strafe", "right", "carefully">>,
     <<"spin", "around", "fast">>,
     <<"come", "here", "slowly">>,
     <<"come", "here", "normal", "for", "3", "seconds">>}

\* The main loop gives these utterances to process_voice_command; nobody
\* calls emergency_stop.
ModifierNext ==
    \/ /\ calls < MaxVoiceCalls
       /\ \E text \in ModifierUtterances :
              process_voice_command(Main, text) /\ UNCHANGED brain_vars
    \/ \E t \in Threads : MovementStep(t)

ModifierSpec == Init /\ [][ModifierNext]_vars

---------------------------------------------------------------------------
(* The PWM loop on constant duties *)

\* One wheel command is issued and completes; from then on the duties are
\* constant and the PWM loop runs period after period.
DutyNext ==
    \/ /\ commands = 0
       /\ \E prim \in Primitives, speed \in PwmSpeeds : IssueCommand(prim, speed)
    \/ set_motor_speed_f
    \/ set_motor_speed_r
    \/ /\ commands = 1
       /\ writer.prim = "none"
       /\ \/ pwm_on_f
          \/ pwm_on_r
          \/ \E d \in DutySamples : pwm_off_f(d)
          \/ pwm_off_r

DutySpec == Init /\ [][DutyNext]_vars

---------------------------------------------------------------------------
(* Wheel duties under every kind of requested speed, dances included *)

\* voice commands without a speed and with a speed above every limit, for
\* each way a voice_* operation computes the speed it requests
LimitCommands == {<<"voice_move_forward", None>>, <<"voice_move_forward", Some(120)>>,
                  <<"voice_spin_around", None>>, <<"voice_spin_around", Some(120)>>,
                  <<"voice_come_here", None>>}

\* the next step of thread t: a movement's step or a step of a dance thread
LimitStep(t) ==
    \/ MovementStep(t)
    \/ t \in Dancers /\ dance_check(t)
    \/ t \in Dancers /\ dance_move(t)

\* One thread issues voice commands with every kind of requested speed, and
\* one dance, before, between or after them; the watchdogs, timers and the
\* dance thread run beside it.
LimitNext ==
    \/ /\ calls < MaxSpeedCalls
       /\ \E c \in LimitCommands : CallVoice(Main, c[1], c[2], None)
    \/ /\ calls < MaxSpeedCalls
       /\ \A d \in Dancers : pc[d] = "none" /\ dance_step[d] = 1
       /\ CallVoice(Main, "voice_dance_mode", None, None)
    \/ \E t \in Threads : LimitStep(t)

LimitSpec == Init /\ [][LimitNext]_vars

---------------------------------------------------------------------------
(* The application's shutdown *)

\* GPIO.cleanup() has released the pins
Released == writer.prim = "cleanup" /\ writer.field = "GPIO.cleanup"

\* stop() of the brain, which _shutdown_with_movement calls after
\* _shutdown_movement has run cleanup_enhanced: stop_all_safe(), whose
\* stop_all calls GPIO.output(..., GPIO.LOW); then cleanup_enhanced() again,
\* with cleanup's stop_all and, unless that raised, its GPIO.cleanup().
\* writer.index counts the steps stop() has made.
brain_stop ==
    /\ Released
    /\ \/ /\ writer.index = 1
          /\ commands' = commands + 1
          /\ writer' = [writer EXCEPT !.index = 2]
       \/ /\ writer.index = 2
          /\ commands' = commands + 1
          /\ \E raises \in BOOLEAN :
                writer' = [writer EXCEPT !.index = IF raises THEN 4 ELSE 3]
       \/ /\ writer.index = 3
          /\ writer' = [writer EXCEPT !.index = 4, !.id = @ + 1]
          /\ UNCHANGED commands
    /\ UNCHANGED <<speed_f, speed_r, supervisor_vars, parser_vars, brain_vars, pwm, pin,
                   issued, seen>>

\* _shutdown_with_movement: the movement system is stopped and cleaned up,
\* then the brain is stopped.
ExitNext == ShutdownNext \/ brain_stop

ExitSpec == Init /\ [][ExitNext]_vars

---------------------------------------------------------------------------
(* Claims *)

\* emergency_stop has taken the lock and can go no further: it has returned
\* (the cooldown not yet over), or no step of it is possible
EmergencyHalted(t) ==
    \/ pc[t] = "idle" /\ ret[t] = EmergencyMessage /\ emergency_stop_active
    \/ pc[t] \in EmergencyPcs \ {"emergency_stop"} /\ ~ENABLED emergency_stop(t)

\* C1: once emergency_stop, called during a movement, has done all it does,
\* the status is is_moving = false and current_action = 'stopped', and every
\* wheel has forward and reverse duty 0.
C1_EmergencyStopEndsMovement ==
    \A t \in Callers :
        EmergencyHalted(t) =>
            /\ ~is_moving
            /\ current_action = "stopped"
            /\ AllDutiesZero

\* C2: a call of emergency_stop never waits forever for safety_lock (while it
\* holds the lock itself it can always take its next step), and once it has
\* returned it has returned the message and does not hold the lock.
C2_EmergencyStopReturns ==
    \A t \in Callers :
        /\ (InEmergency(t) /\ safety_lock = t) => ENABLED emergency_stop(t)
        /\ (args[t].op = "none" /\ pc[t] = "idle") => safety_lock # t

\* C3: whenever emergency_stop_active is true and emergency_stop has zeroed the
\* wheels, all four wheels have forward and reverse duty 0: no operation in
\* progress and no thread sets a duty while the flag is set.
C3_NoDutyWhileEmergencyActive ==
    (emergency_stop_active /\ \A t \in Callers : pc[t] # "em_stop_all") => AllDutiesZero

\* C4: a voice_* operation whose _start_movement runs while
\* emergency_stop_active is true does not block: the lock it needs is free, or
\* its holder can take a step.
C4_RejectionDoesNotBlock ==
    \A t \in Callers :
        (pc[t] = "start_movement" /\ emergency_stop_active) =>
            (safety_lock = NoThread \/ ENABLED ThreadStep(safety_lock))

\* C5: when an emergency_stop and a voice_* operation have overlapped and both
\* are over, is_moving is false, emergency_stop_active is true and every wheel
\* duty is zero.
C5_EmergencyWinsRace ==
    \A e \in Callers, v \in Callers :
        (/\ raced
         /\ e # v
         /\ EmergencyHalted(e)
         /\ pc[v] = "idle"
         /\ ret[v] \in {"Moving", RejectedMessage}) =>
            (~is_moving /\ emergency_stop_active /\ AllDutiesZero)

\* C6: after every emergency_stop, emergency_stop_active eventually becomes
\* false again.
C6_EmergencyEventuallyCleared == emergency_stop_active ~> ~emergency_stop_active

\* C7: current_speed always stays within 0..max_safe_speed, and so does the
\* effective speed set_speed_limit returns to a voice_* operation, whatever
\* speeds are requested.
C7_SpeedWithinSafeLimit ==
    /\ current_speed \in 0..max_safe_speed
    /\ \A t \in Callers : args[t].effective \in 0..max_safe_speed

\* C7 witness: a request above 100 has been cut down to max_safe_speed
C7_Witness ==
    \E t \in Callers :
        /\ pc[t] = "command"
        /\ args[t].speed # None
        /\ args[t].speed[1] > MaxDuty
        /\ args[t].effective = max_safe_speed
        /\ current_speed = max_safe_speed

\* C8: every admitted movement that nobody stops and that has no duration
\* timer eventually reaches is_moving = false through its watchdog, whatever
\* further commands and emergency stops are interleaved.
C8_MovementEventuallyEnds == is_moving ~> ~is_moving

\* the _movement_timeout_check threads that are alive
LiveWatchdogs == {w \in Watchdogs : pc[w] # "none"}

\* C9: a live watchdog thread exists if and only if is_moving is true, and
\* there is never more than one.
C9_OneWatchdogIffMoving ==
    /\ Cardinality(LiveWatchdogs) <= 1
    /\ is_moving <=> LiveWatchdogs # {}

\* the duty the i-th read of a pass finds when the wheels hold `frame`: the
\* loop reads speed_f, then speed_r, of each wheel of self.motors in turn
DutyRead(frame, i) ==
    IF i % 2 = 1 THEN ForwardDuty(frame[MotorOrder[(i + 1) \div 2]])
    ELSE ReverseDuty(frame[MotorOrder[i \div 2]])

\* C10: in one pass of the PWM loop over the wheels, the duties it has read
\* are those of one wheel command (or of the constructor), never a mix.
C10_PassReadsOneCommand ==
    \E frame \in issued : \A i \in 1..Len(seen) : seen[i] = DutyRead(frame, i)

\* C11: in every state, the ones between the two assignments of
\* set_motor_speed included, each wheel's speed_f and speed_r are within
\* 0..MaxDuty and at most one of them is non-zero.
C11_DutiesExclusive ==
    \A w \in Wheels :
        /\ speed_f[w] \in 0..MaxDuty
        /\ speed_r[w] \in 0..MaxDuty
        /\ speed_f[w] = 0 \/ speed_r[w] = 0

\* process_voice_command has been given the utterance voice_text
Processed == parsed.outcome # "none"

\* no voice_* operation has started a movement and none is being entered
NoMovementStarted ==
    /\ total_movements = 0
    /\ ~is_moving
    /\ \A t \in Callers : ~InVoice(t)
    /\ \A t \in Watchdogs \cup Timers \cup Dancers : pc[t] = "none"

\* C12: an utterance that matches an emergency-stop phrase is resolved to
\* emergency_stop whatever else it matches; otherwise one that matches a stop
\* phrase is resolved to stop; only otherwise is a movement resolved.  In the
\* first two cases emergency_stop, respectively stop_all_safe, is what the
\* processor calls, and no voice_* movement is started.
C12_StrictPriority ==
    Processed =>
        /\ match_command(voice_text, "emergency_stop") =>
                /\ parsed.command_type = "emergency_stop"
                /\ InEmergency(Main) \/ ret[Main] = EmergencyMessage
                /\ NoMovementStarted
        /\ (~match_command(voice_text, "emergency_stop") /\ match_command(voice_text, "stop")) =>
                /\ parsed.command_type = "stop"
                /\ args[Main].op = "stop_all_safe" \/ pc[Main] = "idle"
                /\ ~InEmergency(Main)
                /\ ~emergency_stop_active
                /\ NoMovementStarted
        /\ parsed.command_type \notin {"none", "stop", "emergency_stop"} =>
                /\ ~match_command(voice_text, "emergency_stop")
                /\ ~match_command(voice_text, "stop")
                /\ match_command(voice_text, parsed.command_type)

\* C12 witness: an utterance with an emergency phrase and a movement phrase
\* has made the processor call emergency_stop
C12_Witness ==
    /\ Processed
    /\ match_command(voice_text, "emergency_stop")
    /\ match_command(voice_text, "move_forward")
    /\ emergency_stop_active
    /\ parsed.command_type = "emergency_stop"

\* C13: an utterance that matches no pattern makes is_movement_command false
\* and process_voice_command fail without calling the motor controller;
\* is_movement_command is true exactly of the utterances that
\* process_voice_command resolves to a command type.
C13_UnmatchedIsNoCommand ==
    Processed =>
        /\ is_movement_command(voice_text) <=> parsed.command_type # "none"
        /\ (\A i \in 1..Len(CommandTypes) : ~match_command(voice_text, CommandTypes[i])) =>
                /\ ~is_movement_command(voice_text)
                /\ parsed.outcome \in {"not_understood", "no_input"}
                /\ pc = [t \in Threads |-> IF t \in Callers THEN "idle" ELSE "none"]
                /\ args = [t \in Callers |-> NoArgs]
                /\ total_movements = 0
                /\ ~is_moving
                /\ ~emergency_stop_active
                /\ AllDutiesZero

\* C13 witness: three words that are in no pattern have been processed
C13_Witness ==
    /\ voice_text = <<"hello", "hello", "hello">>
    /\ parsed.outcome = "not_understood"
    /\ ~is_movement_command(voice_text)

Directional == {"move_forward", "move_backward", "turn_left", "turn_right",
                "strafe_left", "strafe_right"}

\* C15: a movement command without a speed word runs at default_speed,
\* whatever commands were executed before it.
C15_NoModifierMeansDefaultSpeed ==
    (/\ Processed
     /\ pc[Main] = "command"
     /\ parsed.speed = None
     /\ parsed.command_type \in Directional) => args[Main].effective = default_speed

\* the signed speed of each wheel
SignedSpeed == [w \in Wheels |-> speed_f[w] - speed_r[w]]

TurnLeftQuickly == <<"turn", "left", "quickly">>

\* C16: 'turn left quickly' is resolved to turn_left with speed 65, and the
\* wheel command it executes leaves FL = -65, FR = 65, BL = -65, BR = 65.
C16_TurnLeftQuickly ==
    /\ []((Processed /\ voice_text = TurnLeftQuickly) =>
              (/\ parsed.command_type = "turn_left"
               /\ parsed.speed = Some(65)
               /\ InVoice(Main) => args[Main].op = "voice_turn_left"))
    /\ [][(voice_text = TurnLeftQuickly /\ pc[Main] = "command" /\ pc'[Main] = "idle") =>
              SignedSpeed' = [w \in Wheels |-> IF w \in {"FL", "BL"} THEN -65 ELSE 65]]_vars

\* C16 witness: 'turn left quickly' has returned and the wheels turn left at 65
C16_Witness ==
    /\ voice_text = TurnLeftQuickly
    /\ pc[Main] = "idle"
    /\ ret[Main] = "Moving"
    /\ is_moving
    /\ speed_r["FL"] = 65 /\ speed_f["FR"] = 65 /\ speed_r["BL"] = 65 /\ speed_f["BR"] = 65

\* the kinematic table: the signed speeds (FL, FR, BL, BR) of each primitive
KinematicTable(prim, s) ==
    CASE prim = "move_forward" -> <<s, s, s, s>>
      [] prim = "move_backward" -> <<-s, -s, -s, -s>>
      [] prim = "turn_left" -> <<-s, s, -s, s>>
      [] prim = "turn_right" -> <<s, -s, s, -s>>
      [] prim = "spin_clockwise" -> <<s, -s, s, -s>>
      [] prim = "strafe_left" -> <<-s, s, s, -s>>
      [] prim = "strafe_right" -> <<s, -s, -s, s>>
      [] prim = "diagonal_forward_left" -> <<0, s, s, 0>>
      [] prim = "diagonal_forward_right" -> <<s, 0, 0, s>>
      [] prim = "stop_all" -> <<0, 0, 0, 0>>

\* C17: for every speed s in 0..100, when a motion primitive returns, the four
\* wheels' signed speeds are those of the kinematic table.
C17_KinematicTable ==
    [][(writer.prim # "none" /\ writer'.prim = "none") =>
           <<SignedSpeed'["FL"], SignedSpeed'["FR"], SignedSpeed'["BL"], SignedSpeed'["BR"]>>
               = KinematicTable(writer.prim, writer.speed)]_vars

\* C17 witness: strafe_left(40), issued after move_backward(100), has returned
C17_Witness ==
    /\ writer.prim = "none"
    /\ commands = 2
    /\ Frame("move_backward", 100) \in issued
    /\ Frame("strafe_left", 40) \in issued
    /\ SignedSpeed = [FL |-> -40, FR |-> 40, BL |-> 40, BR |-> -40]

\* the signed speed set_omni_movement has left on wheel w, as a fraction
SignedFraction(w) ==
    IF speed_r[w][1] > 0 THEN Fraction(-speed_r[w][1], speed_r[w][2]) ELSE speed_f[w]

\* C18: set_omni_movement leaves every wheel's signed speed within -100..100;
\* when an unscaled value exceeds 100 in magnitude every wheel holds its
\* unscaled value times 100 / max_val, so that the largest is exactly 100 in
\* magnitude, and otherwise every wheel holds its unscaled value.
C18_OmniProportionalScaling ==
    writer.prim = "set_omni_movement" =>
        LET raw == OmniKinematics(writer.speed[1], writer.speed[2], writer.speed[3])
        IN  /\ \A w \in Wheels :
                  /\ SignedFraction(w)[2] > 0
                  /\ SignedFraction(w)[1] <= MaxDuty * SignedFraction(w)[2]
                  /\ SignedFraction(w)[1] >= -MaxDuty * SignedFraction(w)[2]
                  /\ speed_f[w][1] = 0 \/ speed_r[w][1] = 0
                  /\ IF MaxVal(raw) > MaxDuty
                     THEN SignedFraction(w)[1] * MaxVal(raw)
                              = raw[w] * MaxDuty * SignedFraction(w)[2]
                     ELSE SignedFraction(w)[1] = raw[w] * SignedFraction(w)[2]
            /\ MaxVal(raw) > MaxDuty =>
                  \E w \in Wheels :
                      Abs(SignedFraction(w)[1]) = MaxDuty * SignedFraction(w)[2]

\* C18 witness: set_omni_movement(100, 33, -7) has scaled 126, 74, 140, 60 by
\* 100 / 140
C18_Witness ==
    /\ writer.prim = "set_omni_movement"
    /\ writer.speed = <<100, 33, -7>>
    /\ speed_f["BL"] = Fraction(14000, 140)
    /\ speed_f["FL"] = Fraction(7400, 140)

\* the status stop_all_safe leaves
Stopped ==
    /\ ~is_moving
    /\ current_action = "stopped"
    /\ movement_start_time = None
    /\ AllDutiesZero

\* C19: a stop_all_safe call returns with is_moving false, current_action
\* 'stopped' and all duties zero, and a stop_all_safe call made in that state
\* changes neither the status, nor a duty, nor the movement history.
C19_StopIsIdempotent ==
    /\ [][(pc[Main] = "end_movement" /\ pc'[Main] = "idle") => Stopped']_vars
    /\ [][(Stopped /\ pc[Main] \in {"stop_all", "end_movement"} /\ pc'[Main] # pc[Main])
              => /\ Stopped'
                 /\ UNCHANGED <<speed_f, speed_r, movement_history, total_movements,
                                current_speed>>]_vars

\* C19 witness: move forward, then stop_all_safe twice; the watchdog of the
\* movement still sleeps, so the first stop has ended it, and the history
\* holds its one entry.
C19_Witness ==
    /\ calls = 3
    /\ total_movements = 1
    /\ pc[<<"watchdog", 1>>] = "sleep"
    /\ pc[Main] = "idle"
    /\ ret[Main] = "None"
    /\ Stopped
    /\ Len(movement_history) = 1

\* C20: the movement history never holds more than 50 entries; a movement
\* that completes becomes its last entry, behind the entries it held, in
\* their order, without the oldest of them when there were 50; and nothing
\* else changes it.
C20_HistoryKeepsLastFifty ==
    /\ [](Len(movement_history) <= 50)
    /\ [][IF is_moving /\ ~is_moving'
          THEN LET dropped == IF Len(movement_history) = 50 THEN 1 ELSE 0
               IN  /\ Len(movement_history') = Len(movement_history) + 1 - dropped
                   /\ movement_history'[Len(movement_history')] =
                          [action |-> current_action, speed |-> current_speed]
                   /\ \A i \in 1..(Len(movement_history') - 1) :
                          movement_history'[i] = movement_history[i + dropped]
          ELSE movement_history' = movement_history]_vars

\* C20 witness: 50 movements were completed, a turn and a reverse have been
\* completed since, and the history holds 50 entries from the third on.
C20_Witness ==
    /\ Len(movement_history) = 50
    /\ movement_history[1] = [action |-> "moving forward", speed |-> 3]
    /\ movement_history[49].action = "turning left"
    /\ movement_history[50].action = "moving backward"
    /\ ~is_moving

\* C21: the state machine enters MOVING only when the command of the
\* utterance has been admitted by _start_movement, and never for a stop or
\* an emergency stop.
C21_MovingOnlyWhenAdmitted ==
    [][(state # "moving" /\ state' = "moving")
           => /\ ret'[Main] = "Moving"
              /\ parsed'.command_type \notin {"stop", "emergency_stop"}]_vars

\* C22: the state machine leaves MOVING only in a step taken while is_moving
\* is false.
C22_LeavesMovingOnlyWhenStopped ==
    [][(state = "moving" /\ state' # "moving") => ~is_moving]_vars

\* C23: a pass of the main loop made in MOVING while the robot is moving and
\* a 'stop' or 'emergency stop' waits at the head of the listener's queue
\* takes that utterance from the queue.
C23_StopHeardWhileMoving ==
    [][(/\ state = "moving"
        /\ is_moving
        /\ result_queue # <<>>
        /\ brain.pc = "dispatch"
        /\ brain'.pc # "dispatch")
           => (resolve(Head(result_queue)) \in {"stop", "emergency_stop"}
                  => result_queue' = Tail(result_queue))]_vars

\* C24: a movement utterance given to process_voice_command while an
\* emergency stop is active is answered, and the answer is a refusal: the
\* operation returns its refusal text and the result does not report success.
C24_RefusalIsReported ==
    (emergency_stop_active /\ pc[Main] = "start_movement")
        ~> (/\ pc[Main] = "idle"
            /\ ret[Main] = RejectedMessage
            /\ parsed.outcome # "called")

\* C25: the PWM timing thread does not terminate, also when a pin write has
\* failed.
C25_PwmLoopSurvivesPinFailure == pwm.phase # "terminated"

\* every motor pin is at its inactive level
AllPinsLow == \A w \in Wheels : pin[w].RPWM = "LOW" /\ pin[w].LPWM = "LOW"

\* C26: every motor pin is LOW when GPIO.cleanup() releases the pins, and
\* once cleanup's stop_all has forced the pins LOW no pin goes HIGH.
C26_PinsLowAtRelease ==
    /\ [][(writer.field = "stop_all" /\ writer'.field = "GPIO.cleanup") => AllPinsLow]_vars
    /\ [][(writer.prim = "cleanup" /\ writer.field # "sleep") => AllPinsLow']_vars

\* C27: the dance thread of the first dance goes on to its next move only
\* while that dance has not been ended: once a stop has ended it, the thread
\* aborts, also when a new movement was admitted before the thread woke up.
C27_DanceAbortsAfterStop ==
    [][(pc[<<"dance", 1>>] = "check" /\ pc'[<<"dance", 1>>] = "move")
           => movement_history = <<>>]_vars

\* C28: whenever the brain is in LISTENING and the person is gone, it reaches
\* IDLE unless the person comes back, whether or not conversation_active is set.
C28_PresenceLostLeadsToIdle ==
    (state = "listening" /\ ~person_detected) ~> (state = "idle" \/ person_detected)

\* C29: whenever the brain is in SPEAKING and no speech output is in
\* progress any more, it eventually leaves SPEAKING.
C29_SpeakingEnds ==
    (state = "speaking" /\ brain.speaking = 0) ~> (state # "speaking")

\* C30: the watchdog armed for one movement never stops another one: when a
\* watchdog wakes up and goes on to stop_all_safe while a movement is under
\* way and every movement before that one has ended, the movement under way
\* is the one the watchdog was armed for.
C30_WatchdogStopsOwnMovement ==
    [][\A id \in 1..MaxCalls :
          (/\ pc[<<"watchdog", id>>] = "sleep"
           /\ pc'[<<"watchdog", id>>] = "stop_all"
           /\ movement_start_time # None
           /\ Len(movement_history) = movement_start_time[1] - 1)
              => movement_start_time = Some(id)]_vars

\* C31: at most one movement is in flight: never are two dance threads both
\* about to write the wheel duties of their next move.
C31_OneMovementInFlight ==
    \A d1, d2 \in Dancers : (pc[d1] = "move" /\ pc[d2] = "move") => d1 = d2

\* C32: once start() has returned, the robot state is written by the main
\* loop thread only (no other thread ever takes state_lock): every step that
\* changes the state is a step of the main loop, which moves the loop's
\* position.
C32_StateHasOneWriter ==
    [][(brain.starter = "done" /\ state' # state) => brain'.pc # brain.pc]_vars

\* C33: every time the brain is in MOVING it eventually is in LISTENING or
\* IDLE again.
C33_MovingEventuallyLeft ==
    (state = "moving") ~> (state \in {"listening", "idle"})

\* C34: an utterance that names a movement intent and holds a speed word is
\* executed as that intent when no emergency is active: the processor calls
\* the intent's voice_* operation.
C34_ModifiersCombineWithEveryIntent ==
    (/\ Processed
     /\ resolve(voice_text) \notin {"none", "stop", "emergency_stop", "dance"}
     /\ extract_speed(voice_text) # None)
        => (parsed.command_type = resolve(voice_text) /\ parsed.outcome = "called")

\* C35: with constant duties, a pin is high for its duty's share of each PWM
\* period: at the end of the period every pin with a duty below 100 has been
\* driven LOW, and the pin of a duty of 0 is LOW throughout.
C35_HighTimeIsDuty ==
    /\ [][(pwm.phase = "off" /\ pwm'.phase = "on") =>
              \A w \in Wheels :
                  /\ speed_f[w] < MaxDuty => pin'[w].RPWM = "LOW"
                  /\ speed_r[w] < MaxDuty => pin'[w].LPWM = "LOW"]_vars
    /\ [](\A w \in Wheels :
              /\ (writer.prim = "none" /\ speed_f[w] = 0) => pin[w].RPWM = "LOW"
              /\ (writer.prim = "none" /\ speed_r[w] = 0) => pin[w].LPWM = "LOW")

\* C36: a duration timer stops only the movement it was started for: when a
\* timer wakes up and calls stop_all_safe while a movement is under way and
\* every movement before that one has ended, the movement under way is the
\* timer's own.
C36_TimerStopsOwnMovement ==
    [][\A id \in 1..MaxCalls :
          (/\ pc[<<"timer", id>>] = "sleep"
           /\ pc'[<<"timer", id>>] = "end_movement"
           /\ movement_start_time # None
           /\ Len(movement_history) = movement_start_time[1] - 1)
              => movement_start_time = Some(id)]_vars

\* C37: no wheel ever has both of its pins, RPWM and LPWM, HIGH at the same
\* time.
C37_PinsNeverBothHigh ==
    \A w \in Wheels : ~(pin[w].RPWM = "HIGH" /\ pin[w].LPWM = "HIGH")

\* C38: whenever is_moving is false and no operation or thread of the
\* controller is in progress, the movement history holds one entry for every
\* movement admitted so far.
C38_HistoryCountsMovements ==
    (/\ ~is_moving
     /\ \A t \in Callers : pc[t] = "idle"
     /\ \A t \in Spawned : pc[t] \in {"none", "sleep"})
        => Len(movement_history) = total_movements

\* C39: no wheel's forward or reverse duty ever exceeds max_safe_speed,
\* whatever speeds the voice_* operations are asked for and whatever the dance
\* threads do.
C39_DutyWithinSafeLimit ==
    \A w \in Wheels : speed_f[w] <= max_safe_speed /\ speed_r[w] <= max_safe_speed

\* C39 witness: a request above 100 runs the wheels at max_safe_speed while a
\* dance thread of an earlier command is still at work
C39_Witness ==
    /\ \A w \in Wheels : speed_f[w] = max_safe_speed
    /\ \E d \in Dancers : pc[d] \in {"check", "move"}

\* C40: once GPIO.cleanup() has released the pins, no wheel command calls
\* GPIO.output any more, and GPIO.cleanup() is not called a second time.
C40_NoPinWriteAfterRelease ==
    /\ [][Released => commands' = commands]_vars
    /\ [][Released => writer'.id = writer.id]_vars

====
